---- MODULE Spec2Model ----
(***************************************************************************)
(* The per-channel delivery engine of nsqd (nsqd/channel.go) together with *)
(* the priority queue it is built on (internal/pqueue).                    *)
(*                                                                         *)
(* Heap items are heap-allocated objects shared by pointer between a       *)
(* tracker's map and its heap.  They are modelled by a store `item` from   *)
(* item addresses to records; maps and heaps hold addresses.  Positions in *)
(* a heap are 0-based as in the source; the sequence holding the heap is   *)
(* 1-based, so position i is element i+1.                                  *)
(***************************************************************************)
EXTENDS Integers, Sequences, FiniteSets, TLC

\* ------------------------------------------------------------------ bounds
MaxMsgs == 2            \* message ids 1..MaxMsgs
MaxClients == 2         \* consumer ids 1..MaxClients
MaxTime == 1            \* the clock runs 0..MaxTime
MaxTimeout == 1         \* timeouts passed by callers: 0..MaxTimeout
MaxMemQueueSize == 1    \* option MemQueueSize is drawn from 0..MaxMemQueueSize
MaxMsgTimeout == 1      \* option MaxMsgTimeout (scaled to clock ticks)
MaxItems == 2           \* heap items allocated at one time
MaxRequeues == 1        \* cap on requeueCount
MaxTimeouts == 2        \* cap on timeoutCount
MaxPending == 1         \* cap on goroutines spawned by RemoveClient and not yet run
MaxChannelConsumers == 1 \* option MaxChannelConsumers
MaxThreads == 3         \* goroutines that call Delete or Close concurrently
MaxCallers == 2         \* goroutines inside AddClient and RemoveClient at a time
MaxHeap == 3            \* items of the priority queue exercised on its own
MaxPriority == 2        \* their priorities are 0..MaxPriority
MaxBuffer == 2          \* MemQueueSize of the channel whose order of delivery is checked
MaxDeliveries == 1      \* deliveries of one message while the trackers run step by step

Msgs == 1..MaxMsgs
Clients == 1..MaxClients
Times == 0..MaxTime
Timeouts == 0..MaxTimeout
ItemIds == 1..MaxItems
Threads == 1..MaxThreads
Callers == 1..MaxCallers
LockNames == {"exitMutex", "RWMutex", "inFlightMutex", "deferredMutex"}
HeapItems == 1..MaxHeap
Priorities == 0..MaxPriority
NoClient == 0

\* ------------------------------------------------------------ priority queue
\* A heap is a record [q, it, panic]: q the backing array (of item addresses),
\* it the item store, panic set when an index expression runs out of range
\* (a Go run-time panic).

\* Go's integer division truncates toward zero: (0-1)/2 = 0.
GoDiv(a, b) == IF a >= 0 THEN a \div b ELSE -((-a) \div b)

InRange(H, i) == i >= 0 /\ i < Len(H.q)

\* pq.less(i, j): comparator Min on the priorities at positions i and j
less(H, i, j) == H.it[H.q[i + 1]].Priority < H.it[H.q[j + 1]].Priority

\* pq.swap(i, j): exchanges the two array slots (the items' Index fields are
\* not written)
swap(H, i, j) ==
    IF ~InRange(H, i) \/ ~InRange(H, j)
    THEN [H EXCEPT !.panic = TRUE]
    ELSE [H EXCEPT !.q = [H.q EXCEPT ![i + 1] = H.q[j + 1], ![j + 1] = H.q[i + 1]]]

\* pq.up(j)
RECURSIVE up(_, _)
up(H, j) ==
    LET i == GoDiv(j - 1, 2) IN
    IF H.panic \/ i = j THEN H
    ELSE IF ~InRange(H, j) \/ ~InRange(H, i) THEN [H EXCEPT !.panic = TRUE]
    ELSE IF ~less(H, j, i) THEN H
    ELSE up(swap(H, i, j), i)

\* pq.down(i0, n): the loop; yields the heap and the final position i
RECURSIVE downLoop(_, _, _)
downLoop(H, i, n) ==
    LET j1 == 2 * i + 1 IN
    IF H.panic \/ j1 >= n \/ j1 < 0 THEN [H |-> H, i |-> i]
    ELSE LET j2 == j1 + 1
             j == IF j2 < n /\ less(H, j2, j1) THEN j2 ELSE j1
         IN IF ~less(H, j, i) THEN [H |-> H, i |-> i]
            ELSE downLoop(swap(H, i, j), j, n)

\* pq.down(i0, n) with its result i > i0
down(H, i0, n) ==
    LET r == downLoop(H, i0, n) IN [H |-> r.H, moved |-> r.i > i0]

\* pq.pop(): detaches the last slot and marks that item Index = -1
pop(H) ==
    LET n == Len(H.q) IN
    IF H.panic \/ n = 0 THEN [H EXCEPT !.panic = TRUE]
    ELSE [H EXCEPT !.it[H.q[n]].Index = -1, !.q = SubSeq(H.q, 1, n - 1)]

\* pq.Push(item)
Push(H, a) ==
    LET n == Len(H.q) IN
    up([H EXCEPT !.it[a].Index = n, !.q = Append(H.q, a)], n)

\* Remove that moves the last item to position i and leaves it there
RemoveNoSift(H, i) ==
    LET n == Len(H.q) IN
    IF i # n - 1
    THEN LET s == swap(H, i, n - 1) IN IF s.panic THEN s ELSE pop(s)
    ELSE pop(H)

\* pq.Remove(i)
Remove(H, i) ==
    LET n == Len(H.q) IN
    IF i # n - 1
    THEN LET s == swap(H, i, n - 1)
             d == down(s, i, n - 1)
         IN IF s.panic THEN s
            ELSE pop(IF d.moved THEN d.H ELSE up(d.H, i))
    ELSE pop(H)

\* Pop that moves the last item to the root and leaves it there
PopNoDown(H) ==
    LET n == Len(H.q)
        s == swap(H, 0, n - 1)
    IN IF s.panic THEN s ELSE pop(s)

\* pq.Pop()
Pop(H) ==
    LET n == Len(H.q)
        s == swap(H, 0, n - 1)
    IN IF s.panic THEN s ELSE pop(down(s, 0, n - 1).H)

\* pq.Update(item)
Update(H, a) ==
    IF H.it[a].Index = -1 THEN H
    ELSE LET n == Len(H.q)
             i == H.it[a].Index
             d == down(H, i, n)
         IN IF d.moved THEN d.H ELSE up(d.H, i)

\* PeekAndShift with comp(p) == p >= t: an item due exactly at t is held back
PeekAndShiftStrict(H, t) ==
    IF Len(H.q) = 0 THEN [H |-> H, item |-> 0]
    ELSE IF H.it[H.q[1]].Priority >= t THEN [H |-> H, item |-> 0]
    ELSE [H |-> Remove(H, 0), item |-> H.q[1]]

\* pq.PeekAndShift(comp) with comp(p) == p > t: the heap afterwards and the
\* address of the returned item (0 for nil)
PeekAndShift(H, t) ==
    IF Len(H.q) = 0 THEN [H |-> H, item |-> 0]
    ELSE IF H.it[H.q[1]].Priority > t THEN [H |-> H, item |-> 0]
    ELSE [H |-> Remove(H, 0), item |-> H.q[1]]

\* pqueue.New(capacity, Min): no item; the item store holds Go's zero values
New == [q |-> <<>>, it |-> [a \in HeapItems |-> [Val |-> 0, Priority |-> 0, Index |-> 0]],
        panic |-> FALSE]

\* what pq.Pop() returns: the item pq.pop() detaches from the last slot
PopItem(H) ==
    LET n == Len(H.q)
        s == swap(H, 0, n - 1)
    IN IF s.panic THEN 0 ELSE down(s, 0, n - 1).H.q[n]

\* what pq.Remove(i) returns
RemoveItem(H, i) ==
    LET n == Len(H.q) IN
    IF i # n - 1
    THEN LET s == swap(H, i, n - 1)
             d == down(s, i, n - 1)
         IN IF s.panic THEN 0
            ELSE (IF d.moved THEN d.H ELSE up(d.H, i)).q[n]
    ELSE H.q[n]

\* ------------------------------------------------------------ channel state
VARIABLES
    now,               \* time.Now(), in clock ticks
    ephemeral,         \* c.ephemeral
    memQueueSize,      \* option MemQueueSize
    memoryMsgChan,     \* c.memoryMsgChan: buffered messages, oldest first
    backend,           \* c.backend: messages appended to the backend queue
    backendState,      \* "open", "closed" (backend.Close) or "deleted" (backend.Delete)
    held,              \* messages a consumer has received and not yet put in flight
    sequence,          \* guidFactory.sequence: the last message id handed out
    msgClientID,       \* Message.clientID of each message
    msgDeliveryTS,     \* Message.deliveryTS of each message
    item,              \* heap-allocated pqueue.Item objects by address
    inFlightMessages,  \* c.inFlightMessages: message id -> item address (0: absent)
    inFlightPQ,        \* c.inFlightPQ.items
    deferredMessages,  \* c.deferredMessages
    deferredPQ,        \* c.deferredPQ.items
    clients,           \* c.clients (the registered consumer ids)
    paused,            \* c.paused
    exitFlag,          \* c.exitFlag
    messageCount, requeueCount, timeoutCount,
    teardowns,         \* number of times exit() ran past its compare-and-swap
    deleterDone,       \* c.deleter (sync.Once) has fired
    deleterPending,    \* goroutines spawned by RemoveClient that have not run yet
    callbackCalls,     \* invocations of c.deleteCallback
    panicked,          \* a Go run-time panic has ended the process
    exitMutex,         \* c.exitMutex: the goroutine holding its write lock (0: nobody)
    pc,                \* where each goroutine stands in c.exit
    exitDeleted,       \* the argument `deleted` of each goroutine's c.exit
    exitRet,           \* what each goroutine's Delete or Close returned
    exitReaders,       \* c.exitMutex: the goroutines holding its read lock
    local,             \* each goroutine's local variables in AddClient/RemoveClient
    pq,                \* a PriorityQueue used on its own: the heap [q, it, panic]
    pqOut,             \* the priorities its latest run of Pop/PeekAndShift returned
    pqOp,              \* its last call: the method and the argument
    script,            \* the lock operations each goroutine's call has still to do
    lk,                \* the four locks: writer, read holds, goroutines waiting to write
    track,             \* each goroutine's place and locals in a tracker method
    hist,              \* per message: accepted, deliveries, and how its deliveries ended
    last               \* the last call: operation, result, calls made to consumers

vars == <<now, ephemeral, memQueueSize, memoryMsgChan, backend, backendState,
          held, sequence, msgClientID, msgDeliveryTS, item,
          inFlightMessages, inFlightPQ, deferredMessages, deferredPQ, clients,
          paused, exitFlag, messageCount, requeueCount, timeoutCount, teardowns,
          deleterDone, deleterPending, callbackCalls, panicked,
          exitMutex, pc, exitDeleted, exitRet, exitReaders, local, pq, pqOut, pqOp, script, lk, track, hist, last>>

\* the channel's own state
channelVars == <<now, ephemeral, memQueueSize, memoryMsgChan, backend, backendState,
                 held, sequence, msgClientID, msgDeliveryTS, item,
                 inFlightMessages, inFlightPQ, deferredMessages, deferredPQ, clients,
                 paused, exitFlag, messageCount, requeueCount, timeoutCount,
                 teardowns, deleterDone, deleterPending, callbackCalls, panicked>>

\* a goroutine outside the tracker methods
Idle == [pc |-> "idle", m |-> 0, a |-> 0, timeout |-> 0]

\* a message nothing has happened to
NoHistory == [acc |-> FALSE, del |-> 0, fin |-> 0, req |-> 0, tmo |-> 0, exiting |-> 0]

\* a goroutine outside AddClient and RemoveClient has no locals
NoLocals == [clientID |-> NoClient, ok |-> FALSE, numClients |-> 0]

\* the goroutines' own state
threadVars == <<exitMutex, pc, exitDeleted, exitRet, exitReaders, local>>

\* What a call that changes nothing returns.  Such a call leaves no trace in
\* the state; what it returns is a function of the state it is made in.
Rejections == {"ID not in flight", "client does not own message", "ID already in flight",
               "ID already deferred", "exiting", "exceeds limit", "backend error", "false"}

NilItem == [Val |-> 0, Priority |-> 0, Index |-> 0]
NoCalls == [c \in Clients |-> 0]

\* the record of a call: the operation, what it returned, and how often it
\* called each consumer (TimedOutMessage for the in-flight sweep, Empty for
\* Empty, Close for Delete and Close, Pause and UnPause for those)
Call(op, ret) == [op |-> op, ret |-> ret, calls |-> NoCalls]

\* The channel as one value, so that a handler's code reads as a sequence of
\* updates of it.
Cur ==
    [memoryMsgChan |-> memoryMsgChan, backend |-> backend,
     backendState |-> backendState, held |-> held,
     sequence |-> sequence, msgClientID |-> msgClientID,
     msgDeliveryTS |-> msgDeliveryTS, item |-> item,
     inFlightMessages |-> inFlightMessages, inFlightPQ |-> inFlightPQ,
     deferredMessages |-> deferredMessages, deferredPQ |-> deferredPQ,
     clients |-> clients, paused |-> paused, exitFlag |-> exitFlag,
     messageCount |-> messageCount, requeueCount |-> requeueCount,
     timeoutCount |-> timeoutCount, teardowns |-> teardowns,
     deleterDone |-> deleterDone, deleterPending |-> deleterPending,
     callbackCalls |-> callbackCalls, panicked |-> FALSE, calls |-> NoCalls]

SeqRange(q) == {q[i] : i \in 1..Len(q)}

\* Item addresses the channel still references.
UsedItems(S) ==
    ({S.inFlightMessages[m] : m \in Msgs} \cup {S.deferredMessages[m] : m \in Msgs}
       \cup SeqRange(S.inFlightPQ) \cup SeqRange(S.deferredPQ)) \ {0}

\* the positions of sequence q whose element satisfies nothing but being a,
\* i.e. the position of a in q (q holds a once)
PosIn(q, a) == CHOOSE k \in 1..Len(q) : q[k] = a

\* Addresses carry no meaning: the referenced items are renumbered in the order
\* in-flight heap, deferred heap, items held by the in-flight map alone, items
\* held by the deferred map alone.
Renumber(S) ==
    LET inHeaps == SeqRange(S.inFlightPQ) \cup SeqRange(S.deferredPQ)
        LoneI(m) == S.inFlightMessages[m] # 0 /\ S.inFlightMessages[m] \notin inHeaps
        LoneD(m) == S.deferredMessages[m] # 0 /\ S.deferredMessages[m] \notin inHeaps
        ids == [m \in 1..MaxMsgs |-> m]
        loneI == SelectSeq(ids, LoneI)
        loneD == SelectSeq(ids, LoneD)
        U == S.inFlightPQ \o S.deferredPQ
               \o [k \in 1..Len(loneI) |-> S.inFlightMessages[loneI[k]]]
               \o [k \in 1..Len(loneD) |-> S.deferredMessages[loneD[k]]]
        nI == Len(S.inFlightPQ)
    IN [S EXCEPT
          !.item = [k \in ItemIds |-> IF k <= Len(U) THEN S.item[U[k]] ELSE NilItem],
          !.inFlightPQ = [k \in 1..nI |-> k],
          !.deferredPQ = [k \in 1..Len(S.deferredPQ) |-> nI + k],
          !.inFlightMessages = [m \in Msgs |-> IF S.inFlightMessages[m] = 0 THEN 0
                                               ELSE PosIn(U, S.inFlightMessages[m])],
          !.deferredMessages = [m \in Msgs |-> IF S.deferredMessages[m] = 0 THEN 0
                                               ELSE PosIn(U, S.deferredMessages[m])]]

\* Garbage collection: unreferenced items are gone.  A message's clientID and
\* deliveryTS are read through the in-flight map (TouchMessage) and the
\* in-flight heap (processInFlightQueue) only, and StartInFlightTimeout writes
\* both before it puts the message there: for a message neither of the two
\* refers to they are dead, and are cleared.
Collect(S0) ==
    LET S == Renumber(S0)
        live == {m \in Msgs : S.inFlightMessages[m] # 0}
                  \cup {S.item[S.inFlightPQ[k]].Val : k \in 1..Len(S.inFlightPQ)}
    IN [S EXCEPT
          !.msgClientID = [m \in Msgs |-> IF m \in live THEN S.msgClientID[m]
                                          ELSE NoClient],
          !.msgDeliveryTS = [m \in Msgs |-> IF m \in live THEN S.msgDeliveryTS[m]
                                            ELSE 0]]

\* The channel after a handler, or a step of one, that took it to S0 and
\* returned `rec`.
CommitChannel(S0, rec) ==
    /\ ~panicked
    /\ \E S \in {Collect(S0)} :
       /\ memoryMsgChan' = S.memoryMsgChan
       /\ backend' = S.backend
       /\ backendState' = S.backendState
       /\ held' = S.held
       /\ sequence' = S.sequence
       /\ msgClientID' = S.msgClientID
       /\ msgDeliveryTS' = S.msgDeliveryTS
       /\ item' = S.item
       /\ inFlightMessages' = S.inFlightMessages
       /\ inFlightPQ' = S.inFlightPQ
       /\ deferredMessages' = S.deferredMessages
       /\ deferredPQ' = S.deferredPQ
       /\ clients' = S.clients
       /\ paused' = S.paused
       /\ exitFlag' = S.exitFlag
       /\ messageCount' = S.messageCount
       /\ requeueCount' = S.requeueCount
       /\ timeoutCount' = S.timeoutCount
       /\ teardowns' = S.teardowns
       /\ deleterDone' = S.deleterDone
       /\ deleterPending' = S.deleterPending
       /\ callbackCalls' = S.callbackCalls
       /\ panicked' = S.panicked
       /\ last' = IF S.panicked THEN [rec EXCEPT !.ret = "panic"]
                   ELSE IF rec.ret \in Rejections /\ [S EXCEPT !.calls = NoCalls] = Cur
                   THEN last
                   ELSE [rec EXCEPT !.calls = S.calls]
       /\ UNCHANGED <<now, ephemeral, memQueueSize, pq, pqOut, pqOp, script, lk, track, hist>>

\* The state after a handler that ran from call to return with no other
\* goroutine in between.
Commit(S0, rec) == CommitChannel(S0, rec) /\ UNCHANGED threadVars

\* ------------------------------------------------------------ channel helpers
IH(S) == [q |-> S.inFlightPQ, it |-> S.item, panic |-> S.panicked]
DH(S) == [q |-> S.deferredPQ, it |-> S.item, panic |-> S.panicked]
SetIH(S, H) == [S EXCEPT !.inFlightPQ = H.q, !.item = H.it, !.panicked = H.panic]
SetDH(S, H) == [S EXCEPT !.deferredPQ = H.q, !.item = H.it, !.panicked = H.panic]

\* &pqueue.Item{...}: a fresh address
NewItem(S) == CHOOSE a \in ItemIds \ UsedItems(S) :
                  \A b \in ItemIds \ UsedItems(S) : a <= b
CanAllocate(S) == ItemIds \ UsedItems(S) # {}

\* c.memoryMsgChan is nil when MemQueueSize = 0 on a non-ephemeral channel
HasMemChan == memQueueSize > 0 \/ ephemeral

\* writeMessageToBackend(m, c.backend): the dummy backend of an ephemeral
\* channel accepts and discards; the disk queue appends unless the write fails
writeMessageToBackend(S, m, bok) ==
    IF ephemeral THEN [S |-> S, err |-> "nil"]
    ELSE IF bok THEN [S |-> [S EXCEPT !.backend = Append(@, m)], err |-> "nil"]
    ELSE [S |-> S, err |-> "backend error"]

\* put without the memory channel's case of the select (line 305): every
\* message goes to the backend
putBackendOnly(S, m, bok, rcv) == writeMessageToBackend(S, m, bok)

\* put that hands the message to the front of the memory channel
putFront(S, m, bok, rcv) ==
    IF HasMemChan /\ Len(S.memoryMsgChan) < memQueueSize
    THEN [S |-> [S EXCEPT !.memoryMsgChan = <<m>> \o @], err |-> "nil"]
    ELSE writeMessageToBackend(S, m, bok)

\* c.put(m).  bok: the backend append succeeds; rcv: a consumer is blocked
\* receiving from the (unbuffered) channel
put(S, m, bok, rcv) ==
    IF HasMemChan /\ Len(S.memoryMsgChan) < memQueueSize
    THEN [S |-> [S EXCEPT !.memoryMsgChan = Append(@, m)], err |-> "nil"]
    ELSE IF HasMemChan /\ memQueueSize = 0 /\ rcv
    THEN [S |-> [S EXCEPT !.held = @ \cup {m}], err |-> "nil"]
    ELSE writeMessageToBackend(S, m, bok)

\* c.Depth()
DepthOf(mem, be) == Len(mem) + (IF ephemeral THEN 0 ELSE Len(be))
Depth == DepthOf(memoryMsgChan, backend)

\* c.pushInFlightMessage(item)
pushInFlightMessage(S, a) ==
    IF S.inFlightMessages[S.item[a].Val] # 0
    THEN [S |-> S, err |-> "ID already in flight"]
    ELSE [S |-> [S EXCEPT !.inFlightMessages[S.item[a].Val] = a], err |-> "nil"]

\* popInFlightMessage without the ownership test of lines 493-495
popInFlightMessageAnyClient(S, clientID, id, peek) ==
    LET a == S.inFlightMessages[id] IN
    IF a = 0 THEN [S |-> S, item |-> 0, err |-> "ID not in flight"]
    ELSE [S |-> IF peek THEN S ELSE [S EXCEPT !.inFlightMessages[id] = 0],
          item |-> a, err |-> "nil"]

\* c.popInFlightMessage(clientID, id, peek)
popInFlightMessage(S, clientID, id, peek) ==
    LET a == S.inFlightMessages[id] IN
    IF a = 0 THEN [S |-> S, item |-> 0, err |-> "ID not in flight"]
    ELSE IF S.msgClientID[S.item[a].Val] # clientID
    THEN [S |-> S, item |-> 0, err |-> "client does not own message"]
    ELSE [S |-> IF peek THEN S ELSE [S EXCEPT !.inFlightMessages[id] = 0],
          item |-> a, err |-> "nil"]

\* c.addToInFlightPQ(item)
addToInFlightPQ(S, a) == SetIH(S, Push(IH(S), a))

\* c.removeFromInFlightPQ(item)
removeFromInFlightPQ(S, a) ==
    IF S.item[a].Index # -1 THEN SetIH(S, Remove(IH(S), S.item[a].Index)) ELSE S

\* c.pushDeferredMessage(item)
pushDeferredMessage(S, a) ==
    IF S.deferredMessages[S.item[a].Val] # 0
    THEN [S |-> S, err |-> "ID already deferred"]
    ELSE [S |-> [S EXCEPT !.deferredMessages[S.item[a].Val] = a], err |-> "nil"]

\* c.addToDeferredPQ(item)
addToDeferredPQ(S, a) == SetDH(S, Push(DH(S), a))

\* initPQ without its second half (lines 133-136): the deferred tracker is kept
initPQInFlightOnly(S) ==
    [S EXCEPT !.inFlightMessages = [m \in Msgs |-> 0], !.inFlightPQ = <<>>]

\* c.initPQ()
initPQ(S) ==
    [S EXCEPT !.inFlightMessages = [m \in Msgs |-> 0], !.inFlightPQ = <<>>,
              !.deferredMessages = [m \in Msgs |-> 0], !.deferredPQ = <<>>]

\* c.StartInFlightTimeout(msg, clientID, timeout) at time t
startInFlightTimeout(S, m, clientID, timeout, t) ==
    LET a == NewItem(S)
        S1 == [S EXCEPT !.msgClientID[m] = clientID, !.msgDeliveryTS[m] = t,
                        !.item[a] = [Val |-> m, Priority |-> t + timeout, Index |-> 0]]
        r == pushInFlightMessage(S1, a)
    IN IF r.err # "nil" THEN [S |-> r.S, err |-> r.err]
       ELSE [S |-> addToInFlightPQ(r.S, a), err |-> "nil"]

\* c.StartDeferredTimeout(msg, timeout) at time t
startDeferredTimeout(S, m, timeout, t) ==
    LET a == NewItem(S)
        S1 == [S EXCEPT !.item[a] = [Val |-> m, Priority |-> t + timeout, Index |-> 0]]
        r == pushDeferredMessage(S1, a)
    IN IF r.err # "nil" THEN [S |-> r.S, err |-> r.err]
       ELSE [S |-> addToDeferredPQ(r.S, a), err |-> "nil"]

\* the deadline without the MaxMsgTimeout clamp of lines 331-335
touchDeadlineUnclamped(t, clientMsgTimeout, deliveryTS) == t + clientMsgTimeout

\* the deadline TouchMessage computes
touchDeadline(t, clientMsgTimeout, deliveryTS) ==
    IF (t + clientMsgTimeout) - deliveryTS >= MaxMsgTimeout
    THEN deliveryTS + MaxMsgTimeout
    ELSE t + clientMsgTimeout

\* c.TouchMessage(clientID, id, clientMsgTimeout) at time t
touchMessage(S, clientID, id, clientMsgTimeout, t) ==
    LET r == popInFlightMessage(S, clientID, id, TRUE)
        a == r.item
        p == touchDeadline(t, clientMsgTimeout, S.msgDeliveryTS[S.item[a].Val])
        S1 == [S EXCEPT !.item[a].Priority = p]
    IN IF r.err # "nil" THEN [S |-> S, err |-> r.err]
       ELSE [S |-> SetIH(S1, Update(IH(S1), a)), err |-> "nil"]

\* c.FinishMessage(clientID, id)
finishMessage(S, clientID, id) ==
    LET r == popInFlightMessage(S, clientID, id, FALSE) IN
    IF r.err # "nil" THEN [S |-> S, err |-> r.err]
    ELSE [S |-> removeFromInFlightPQ(r.S, r.item), err |-> "nil"]

\* c.RequeueMessage(clientID, id, timeout) at time t
requeueMessage(S, clientID, id, timeout, t, bok, rcv) ==
    LET r == popInFlightMessage(S, clientID, id, FALSE)
        m == S.item[r.item].Val
        S1 == removeFromInFlightPQ(r.S, r.item)
        S2 == [S1 EXCEPT !.requeueCount = @ + 1]
    IN IF r.err # "nil" THEN [S |-> S, err |-> r.err]
       ELSE IF S1.panicked THEN [S |-> S1, err |-> "panic"]
       ELSE IF timeout = 0
       THEN IF S2.exitFlag = 1 THEN [S |-> S2, err |-> "exiting"]
            ELSE put(S2, m, bok, rcv)
       ELSE startDeferredTimeout(S2, m, timeout, t)

\* the loop of c.processInFlightQueue(t)
RECURSIVE inFlightLoop(_, _, _, _, _)
inFlightLoop(S, t, dirty, bok, rcv) ==
    LET r == PeekAndShift(IH(S), t) IN
    IF r.item = 0 THEN [S |-> S, dirty |-> dirty]
    ELSE IF r.H.panic THEN [S |-> SetIH(S, r.H), dirty |-> dirty]
    ELSE LET m == S.item[r.item].Val
             owner == S.msgClientID[m]
             S1 == [SetIH(S, r.H) EXCEPT !.inFlightMessages[m] = 0,
                                         !.timeoutCount = @ + 1]
             S2 == IF owner \in S1.clients
                   THEN [S1 EXCEPT !.calls[owner] = @ + 1] ELSE S1
         IN inFlightLoop(put(S2, m, bok, rcv).S, t, TRUE, bok, rcv)

\* the loop of c.processDeferredQueue(t)
RECURSIVE deferredLoop(_, _, _, _, _)
deferredLoop(S, t, dirty, bok, rcv) ==
    LET r == PeekAndShift(DH(S), t) IN
    IF r.item = 0 THEN [S |-> S, dirty |-> dirty]
    ELSE IF r.H.panic THEN [S |-> SetDH(S, r.H), dirty |-> dirty]
    ELSE LET m == S.item[r.item].Val
             S1 == [SetDH(S, r.H) EXCEPT !.deferredMessages[m] = 0]
         IN deferredLoop(put(S1, m, bok, rcv).S, t, TRUE, bok, rcv)

\* c.Empty()
empty(S) ==
    [initPQ(S) EXCEPT !.calls = [c \in Clients |-> IF c \in S.clients THEN 1 ELSE 0],
                      !.memoryMsgChan = <<>>, !.backend = <<>>]

\* appends the messages of `ms` (a sequence) to the backend, in order
RECURSIVE writeAll(_, _, _)
writeAll(S, ms, bok) ==
    IF ms = <<>> THEN S
    ELSE writeAll(writeMessageToBackend(S, Head(ms), bok).S, Tail(ms), bok)

\* flush that stops after draining the memory channel (lines 219-229)
flushMemoryOnly(S, ordI, ordD, bok) ==
    [writeAll(S, S.memoryMsgChan, bok) EXCEPT !.memoryMsgChan = <<>>]

\* c.flush(); ordI and ordD are the orders in which the two maps are ranged over
flush(S, ordI, ordD, bok) ==
    LET S1 == [writeAll(S, S.memoryMsgChan, bok) EXCEPT !.memoryMsgChan = <<>>]
        S2 == writeAll(S1, [i \in 1..Len(ordI) |-> S1.item[S1.inFlightMessages[ordI[i]]].Val], bok)
    IN writeAll(S2, [i \in 1..Len(ordD) |-> S2.item[S2.deferredMessages[ordD[i]]].Val], bok)

\* a plain store of 1 to exitFlag in place of the compare-and-swap
storeExitFlag(S) == [S |-> [S EXCEPT !.exitFlag = 1], ok |-> TRUE]

\* atomic.CompareAndSwapInt32(&c.exitFlag, 0, 1)
casExitFlag(S) ==
    IF S.exitFlag = 0 THEN [S |-> [S EXCEPT !.exitFlag = 1], ok |-> TRUE]
    ELSE [S |-> S, ok |-> FALSE]

\* c.exit: closing the consumers' connections
closeClients(S) ==
    [S EXCEPT !.calls = [c \in Clients |-> IF c \in S.clients THEN 1 ELSE 0]]

\* c.exit: the teardown proper, Empty and backend.Delete() or flush and
\* backend.Close(); teardowns counts how often it ran
teardown(S, deleted, ordI, ordD, bok) ==
    LET S1 == [S EXCEPT !.teardowns = @ + 1] IN
    IF deleted
    THEN [empty(S1) EXCEPT !.backendState = "deleted", !.calls = S.calls]
    ELSE [flush(S1, ordI, ordD, bok) EXCEPT !.backendState = "closed"]

\* c.exit(deleted), from Lock to Unlock
exit(S, deleted, ordI, ordD, bok) ==
    LET r == casExitFlag(S) IN
    IF ~r.ok THEN [S |-> S, err |-> "exiting"]
    ELSE [S |-> teardown(closeClients(r.S), deleted, ordI, ordD, bok), err |-> "nil"]

\* ------------------------------------------------------------------ actions
InFlightIds(S) == {m \in Msgs : S.inFlightMessages[m] # 0}
DeferredIds(S) == {m \in Msgs : S.deferredMessages[m] # 0}

\* the orders in which a Go map with keys T can be ranged over
Orders(T) == {o \in [1..Cardinality(T) -> T] :
                 \A i, j \in 1..Cardinality(T) : i # j => o[i] # o[j]}

\* guidFactory.NewGUID(): the next message id
NewGUID == sequence + 1

\* whether a backend append succeeds is the backend's choice (the dummy backend
\* of an ephemeral channel never fails)
BackendOutcomes == IF ephemeral THEN {TRUE} ELSE BOOLEAN

\* whether a consumer is blocked receiving matters for an unbuffered channel only
ReceiverChoices == IF ephemeral /\ memQueueSize = 0 THEN BOOLEAN ELSE {FALSE}

InitOf(sizes) ==
    /\ now = 0
    /\ ephemeral \in BOOLEAN
    /\ memQueueSize \in sizes
    /\ memoryMsgChan = <<>>
    /\ backend = <<>>
    /\ backendState = "open"
    /\ held = {}
    /\ sequence = 0
    /\ msgClientID = [m \in Msgs |-> NoClient]
    /\ msgDeliveryTS = [m \in Msgs |-> 0]
    /\ item = [a \in ItemIds |-> NilItem]
    /\ inFlightMessages = [m \in Msgs |-> 0]
    /\ inFlightPQ = <<>>
    /\ deferredMessages = [m \in Msgs |-> 0]
    /\ deferredPQ = <<>>
    /\ clients = {}
    /\ paused = 0
    /\ exitFlag = 0
    /\ messageCount = 0
    /\ requeueCount = 0
    /\ timeoutCount = 0
    /\ teardowns = 0
    /\ deleterDone = FALSE
    /\ deleterPending = 0
    /\ callbackCalls = 0
    /\ panicked = FALSE
    /\ exitMutex = 0
    /\ pc = [t \in Threads |-> "idle"]
    /\ exitDeleted = [t \in Threads |-> FALSE]
    /\ exitRet = [t \in Threads |-> "none"]
    /\ exitReaders = {}
    /\ local = [t \in Threads |-> NoLocals]
    /\ pq = New
    /\ pqOut = <<>>
    /\ pqOp = <<"New", 0>>
    /\ track = [t \in Callers |-> Idle]
    /\ hist = [m \in Msgs |-> NoHistory]
    /\ script = [t \in Callers |-> <<>>]
    /\ lk = [m \in LockNames |-> [w |-> 0, r |-> [t \in Callers |-> 0], q |-> {}]]
    /\ last = Call("NewChannel", "nil")

\* NewChannel with MemQueueSize any of 0..MaxMemQueueSize
Init == InitOf(0..MaxMemQueueSize)

\* the clock advances
Tick ==
    /\ ~panicked
    /\ now < MaxTime
    /\ now' = now + 1
    /\ UNCHANGED <<ephemeral, memQueueSize, memoryMsgChan, backend, backendState,
                   held, sequence, msgClientID, msgDeliveryTS, item,
                   inFlightMessages, inFlightPQ, deferredMessages, deferredPQ,
                   clients, paused, exitFlag, messageCount, requeueCount,
                   timeoutCount, teardowns, deleterDone, deleterPending,
                   callbackCalls, panicked, last, exitMutex, pc, exitDeleted,
                   exitRet, exitReaders, local, pq, pqOut, pqOp, script, lk, track, hist>>

\* a consumer receives the next message from the memory channel or, through the
\* backend's read channel, from the backend
Dequeue ==
    \/ /\ memoryMsgChan # <<>>
       /\ Commit([Cur EXCEPT !.memoryMsgChan = Tail(@), !.held = @ \cup {Head(memoryMsgChan)}],
                 Call("Dequeue", "nil"))
    \/ /\ backend # <<>>
       /\ backendState = "open"
       /\ Commit([Cur EXCEPT !.backend = Tail(@), !.held = @ \cup {Head(backend)}],
                 Call("Dequeue", "nil"))

\* c.PutMessage(m)
putMessage(S, m, bok, rcv) ==
    LET r == put(S, m, bok, rcv) IN
    IF S.exitFlag = 1 THEN [S |-> S, err |-> "exiting"]
    ELSE IF r.err # "nil" THEN r
    ELSE [S |-> [r.S EXCEPT !.messageCount = @ + 1], err |-> "nil"]

PutMessage(bok, rcv) ==
    /\ sequence < MaxMsgs
    /\ \E r \in {putMessage([Cur EXCEPT !.sequence = NewGUID], NewGUID, bok, rcv)} :
          Commit(r.S, Call("PutMessage", r.err))

\* PutMessageDeferred that puts the message at once instead of deferring it
putMessageDeferredAtOnce(S, m, timeout, t) ==
    put([S EXCEPT !.messageCount = @ + 1], m, TRUE, FALSE).S

\* c.PutMessageDeferred(msg, timeout) at time t
putMessageDeferred(S, m, timeout, t) ==
    startDeferredTimeout([S EXCEPT !.messageCount = @ + 1], m, timeout, t).S

PutMessageDeferred(timeout) ==
    /\ sequence < MaxMsgs
    /\ CanAllocate(Cur)
    /\ Commit(putMessageDeferred([Cur EXCEPT !.sequence = NewGUID], NewGUID, timeout, now),
              Call("PutMessageDeferred", "nil"))

StartInFlightTimeout(m, clientID, timeout) ==
    /\ CanAllocate(Cur)
    /\ \E r \in {startInFlightTimeout(Cur, m, clientID, timeout, now)} :
          Commit(IF r.err = "nil" THEN [r.S EXCEPT !.held = @ \ {m}] ELSE r.S,
                 Call("StartInFlightTimeout", r.err))

StartDeferredTimeout(m, timeout) ==
    /\ CanAllocate(Cur)
    /\ \E r \in {startDeferredTimeout([Cur EXCEPT !.sequence = IF m > @ THEN m ELSE @],
                                      m, timeout, now)} :
          Commit(r.S, Call("StartDeferredTimeout", r.err))

TouchMessage(clientID, id, clientMsgTimeout) ==
    \E r \in {touchMessage(Cur, clientID, id, clientMsgTimeout, now)} :
       Commit(r.S, Call("TouchMessage", r.err))

FinishMessage(clientID, id) ==
    \E r \in {finishMessage(Cur, clientID, id)} :
       Commit(r.S, Call("FinishMessage", r.err))

RequeueMessage(clientID, id, timeout, bok, rcv) ==
    /\ timeout > 0 => CanAllocate(Cur)
    /\ \E r \in {requeueMessage(Cur, clientID, id, timeout, now, bok, rcv)} :
          /\ r.S.requeueCount <= MaxRequeues
          /\ Commit(r.S, Call("RequeueMessage", r.err))

\* c.AddClient(clientID, client)
addClient(S, clientID) ==
    IF S.exitFlag = 1 THEN [S |-> S, err |-> "exiting"]
    ELSE IF clientID \in S.clients THEN [S |-> S, err |-> "nil"]
    ELSE IF MaxChannelConsumers # 0 /\ Cardinality(S.clients) >= MaxChannelConsumers
    THEN [S |-> S, err |-> "exceeds limit"]
    ELSE [S |-> [S EXCEPT !.clients = @ \cup {clientID}], err |-> "nil"]

AddClient(clientID) ==
    \E r \in {addClient(Cur, clientID)} :
       Commit(r.S, Call("AddClient", r.err))

\* c.RemoveClient(clientID); the goroutine it may start is counted in
\* deleterPending
removeClient(S, clientID) ==
    IF S.exitFlag = 1 \/ clientID \notin S.clients THEN S
    ELSE LET S1 == [S EXCEPT !.clients = @ \ {clientID}]
         IN IF S1.clients = {} /\ ephemeral
            THEN [S1 EXCEPT !.deleterPending = @ + 1]
            ELSE S1

RemoveClient(clientID) ==
    \E S \in {removeClient(Cur, clientID)} :
       /\ S.deleterPending <= MaxPending
       /\ Commit(S, Call("RemoveClient", "nil"))

\* c.deleter.Do(func() { c.deleteCallback(c) }) without the sync.Once: the
\* callback runs at every call
deleterDoEach(S) ==
    [S EXCEPT !.deleterPending = @ - 1, !.deleterDone = TRUE,
              !.callbackCalls = @ + 1]

\* c.deleter.Do(func() { c.deleteCallback(c) }): the sync.Once runs the
\* callback at the first call only
deleterDo(S) ==
    [S EXCEPT !.deleterPending = @ - 1, !.deleterDone = TRUE,
              !.callbackCalls = IF S.deleterDone THEN @ ELSE @ + 1]

\* a goroutine started by RemoveClient runs c.deleter.Do(...)
DeleterRun ==
    /\ deleterPending > 0
    /\ Commit(deleterDo(Cur), Call("deleter.Do", "nil"))

\* c.doPause(pause)
doPause(S, pause) ==
    [S EXCEPT !.paused = IF pause THEN 1 ELSE 0,
              !.calls = [c \in Clients |-> IF c \in S.clients THEN 1 ELSE 0]]

Pause == Commit(doPause(Cur, TRUE), Call("Pause", "nil"))
UnPause == Commit(doPause(Cur, FALSE), Call("UnPause", "nil"))

Empty == Commit(empty(Cur), Call("Empty", "nil"))

Delete ==
    \E r \in {exit(Cur, TRUE, <<>>, <<>>, TRUE)} :
       Commit(r.S, Call("Delete", r.err))

Close(ordI, ordD, bok) ==
    \E r \in {exit(Cur, FALSE, ordI, ordD, bok)} :
       Commit(r.S, Call("Close", r.err))

\* c.processInFlightQueue(t)
processInFlightQueueOp(S, t, bok, rcv) ==
    IF S.exitFlag = 1 THEN [S |-> S, dirty |-> FALSE]
    ELSE inFlightLoop(S, t, FALSE, bok, rcv)

\* c.processDeferredQueue(t)
processDeferredQueueOp(S, t, bok, rcv) ==
    IF S.exitFlag = 1 THEN [S |-> S, dirty |-> FALSE]
    ELSE deferredLoop(S, t, FALSE, bok, rcv)

processInFlightQueue(t, bok, rcv) ==
    \E r \in {processInFlightQueueOp(Cur, t, bok, rcv)} :
       /\ r.S.timeoutCount <= MaxTimeouts
       /\ Commit(r.S, Call("processInFlightQueue", IF r.dirty THEN "true" ELSE "false"))

processDeferredQueue(t, bok, rcv) ==
    \E r \in {processDeferredQueueOp(Cur, t, bok, rcv)} :
       Commit(r.S, Call("processDeferredQueue", IF r.dirty THEN "true" ELSE "false"))

\* ------------------------------------------------- c.exit, step by step
\* Delete() and Close() by goroutine t, one step per synchronisation point:
\* the exit lock, the compare-and-swap, the consumers, the teardown.
ExitOp(t) == IF exitDeleted[t] THEN "Delete" ELSE "Close"

\* c.exitMutex.Lock() (line 155): waits until nobody holds the lock
ExitLock(t, deleted) ==
    /\ ~panicked
    /\ pc[t] = "idle"
    /\ exitMutex = 0
    /\ exitReaders = {}
    /\ exitMutex' = t
    /\ pc' = [pc EXCEPT ![t] = "cas"]
    /\ exitDeleted' = [exitDeleted EXCEPT ![t] = deleted]
    /\ UNCHANGED <<now, ephemeral, memQueueSize, memoryMsgChan, backend, backendState,
                   held, sequence, msgClientID, msgDeliveryTS, item,
                   inFlightMessages, inFlightPQ, deferredMessages, deferredPQ,
                   clients, paused, exitFlag, messageCount, requeueCount,
                   timeoutCount, teardowns, deleterDone, deleterPending,
                   callbackCalls, panicked, last, exitRet, exitReaders, local,
                   pq, pqOut, pqOp, script, lk, track, hist>>

\* the compare-and-swap (lines 158-160); the loser returns 'exiting' and the
\* deferred Unlock runs
ExitCAS(t) ==
    /\ pc[t] = "cas"
    /\ \E r \in {casExitFlag(Cur)} :
          IF r.ok
          THEN /\ CommitChannel(r.S, Call(ExitOp(t), "running"))
               /\ pc' = [pc EXCEPT ![t] = "clients"]
               /\ UNCHANGED <<exitMutex, exitDeleted, exitRet, exitReaders, local>>
          ELSE /\ CommitChannel(r.S, Call(ExitOp(t), "exiting"))
               /\ pc' = [pc EXCEPT ![t] = "done"]
               /\ exitRet' = [exitRet EXCEPT ![t] = "exiting"]
               /\ exitMutex' = 0
               /\ UNCHANGED <<exitDeleted, exitReaders, local>>

\* closing the consumers' connections (lines 173-177)
ExitCloseClients(t) ==
    /\ pc[t] = "clients"
    /\ CommitChannel(closeClients(Cur), Call(ExitOp(t), "running"))
    /\ pc' = [pc EXCEPT ![t] = "teardown"]
    /\ UNCHANGED <<exitMutex, exitDeleted, exitRet, exitReaders, local>>

\* the teardown (lines 179-187), the return and the deferred Unlock
ExitTeardown(t, ordI, ordD, bok) ==
    /\ pc[t] = "teardown"
    /\ CommitChannel(teardown(Cur, exitDeleted[t], ordI, ordD, bok), Call(ExitOp(t), "nil"))
    /\ pc' = [pc EXCEPT ![t] = "done"]
    /\ exitRet' = [exitRet EXCEPT ![t] = "nil"]
    /\ exitMutex' = 0
    /\ UNCHANGED <<exitDeleted, exitReaders, local>>

\* ------------------------------------ the registry, one lock step at a time
\* AddClient up to c.RUnlock() (lines 390-400): the exit lock is taken for
\* reading and kept to the return; `ok` and `numClients` are read under the
\* channel's read lock.  On an exiting channel the call returns 'exiting'.
addClientRead(S, clientID) ==
    [clientID |-> clientID, ok |-> clientID \in S.clients,
     numClients |-> Cardinality(S.clients)]

AddClientRead(t, clientID) ==
    /\ pc[t] = "idle"
    /\ exitMutex = 0
    /\ exitFlag = 0
    /\ ~panicked
    /\ UNCHANGED <<channelVars, last, pq, pqOut, pqOp, script, lk, track, hist>>
    /\ pc' = [pc EXCEPT ![t] = "addClient"]
    /\ exitReaders' = exitReaders \cup {t}
    /\ local' = [local EXCEPT ![t] = addClientRead(Cur, clientID)]
    /\ UNCHANGED <<exitMutex, exitDeleted, exitRet>>

\* the rest of AddClient (lines 401-414): the decision is made on the values
\* read before, the insertion under the channel's write lock
addClientInsert(S, l) ==
    IF l.ok THEN [S |-> S, err |-> "nil"]
    ELSE IF MaxChannelConsumers # 0 /\ l.numClients >= MaxChannelConsumers
    THEN [S |-> S, err |-> "exceeds limit"]
    ELSE [S |-> [S EXCEPT !.clients = @ \cup {l.clientID}], err |-> "nil"]

AddClientInsert(t) ==
    /\ pc[t] = "addClient"
    /\ \E r \in {addClientInsert(Cur, local[t])} :
          CommitChannel(r.S, Call("AddClient", r.err))
    /\ pc' = [pc EXCEPT ![t] = "idle"]
    /\ exitReaders' = exitReaders \ {t}
    /\ local' = [local EXCEPT ![t] = NoLocals]
    /\ UNCHANGED <<exitMutex, exitDeleted, exitRet>>

\* RemoveClient up to the test of `ok` (lines 419-431); on an exiting channel
\* and for a clientID that is not registered the call returns there
RemoveClientRead(t, clientID) ==
    /\ pc[t] = "idle"
    /\ exitMutex = 0
    /\ exitFlag = 0
    /\ clientID \in clients
    /\ ~panicked
    /\ UNCHANGED <<channelVars, last, pq, pqOut, pqOp, script, lk, track, hist>>
    /\ pc' = [pc EXCEPT ![t] = "removeClient"]
    /\ exitReaders' = exitReaders \cup {t}
    /\ local' = [local EXCEPT ![t] = [clientID |-> clientID, ok |-> TRUE,
                                      numClients |-> 0]]
    /\ UNCHANGED <<exitMutex, exitDeleted, exitRet>>

\* the deletion under the channel's write lock (lines 433-436)
removeClientDelete(S, clientID) == [S EXCEPT !.clients = @ \ {clientID}]

RemoveClientDelete(t) ==
    /\ pc[t] = "removeClient"
    /\ \E S \in {removeClientDelete(Cur, local[t].clientID)} :
          /\ CommitChannel(S, last)
          /\ local' = [local EXCEPT ![t].numClients = Cardinality(S.clients)]
    /\ pc' = [pc EXCEPT ![t] = "deleter"]
    /\ UNCHANGED <<exitMutex, exitDeleted, exitRet, exitReaders>>

\* the test of numClients and the goroutine (lines 438-440), then the return
removeClientSpawn(S, numClients) ==
    IF numClients = 0 /\ ephemeral THEN [S EXCEPT !.deleterPending = @ + 1] ELSE S

RemoveClientSpawn(t) ==
    /\ pc[t] = "deleter"
    /\ \E S \in {removeClientSpawn(Cur, local[t].numClients)} :
          /\ S.deleterPending <= MaxPending
          /\ CommitChannel(S, Call("RemoveClient", "nil"))
    /\ pc' = [pc EXCEPT ![t] = "idle"]
    /\ exitReaders' = exitReaders \ {t}
    /\ local' = [local EXCEPT ![t] = NoLocals]
    /\ UNCHANGED <<exitMutex, exitDeleted, exitRet>>

\* Delete() as one step, once no goroutine holds the exit lock
DeleteAlone ==
    /\ exitMutex = 0
    /\ exitReaders = {}
    /\ Delete

\* ------------------------------------------------ the priority queue alone
\* An item the queue does not hold keeps nothing but its Index: the caller's
\* next Push of that address is a new Item.
Settle(H) ==
    [H EXCEPT !.it = [a \in HeapItems |->
                        IF a \in {H.q[k] : k \in 1..Len(H.q)} THEN H.it[a]
                        ELSE [Val |-> 0, Priority |-> 0,
                              Index |-> IF H.it[a].Index = -1 THEN -1 ELSE 0]]]

\* the address of the caller's new Item
FreeItem(H) == CHOOSE a \in HeapItems :
                  /\ a \notin {H.q[k] : k \in 1..Len(H.q)}
                  /\ \A b \in HeapItems : b < a => b \in {H.q[k] : k \in 1..Len(H.q)}

\* pq.Push(&Item{Val: a, Priority: p})
PushNew(H, p) ==
    LET a == FreeItem(H) IN
    Push([H EXCEPT !.it[a] = [Val |-> a, Priority |-> p, Index |-> 0]], a)

\* item.Priority = p; pq.Update(item)
UpdateTo(H, a, p) == Update([H EXCEPT !.it[a].Priority = p], a)

QueueStep(H, out, op) ==
    /\ ~pq.panic
    /\ pq' = Settle(H)
    /\ pqOut' = out
    /\ pqOp' = op
    /\ UNCHANGED <<channelVars, threadVars, last, script, lk, track, hist>>

QueuePush(p) ==
    /\ Len(pq.q) < MaxHeap
    /\ QueueStep(PushNew(pq, p), <<>>, <<"Push", p>>)

QueuePop ==
    /\ Len(pq.q) > 0
    /\ QueueStep(Pop(pq), Append(pqOut, pq.it[PopItem(pq)].Priority), <<"Pop", 0>>)

QueueRemove(i) ==
    /\ InRange(pq, i)
    /\ QueueStep(Remove(pq, i), <<>>, <<"Remove", i>>)

QueuePeekAndShift(t) ==
    \E r \in {PeekAndShift(pq, t)} :
       /\ r.item # 0
       /\ QueueStep(r.H, Append(pqOut, pq.it[r.item].Priority), <<"PeekAndShift", t>>)

\* Update of an item that is in the queue or was removed from it
QueueUpdate(a, p) ==
    /\ a \in {pq.q[k] : k \in 1..Len(pq.q)} \/ pq.it[a].Index = -1
    /\ QueueStep(UpdateTo(pq, a, p), <<>>, <<"Update", p>>)

\* ------------------------------ the trackers, one lock section at a time
\* The methods that work on the two trackers take the tracker's lock, release
\* it and take it again: a goroutine here runs one such section per step and
\* keeps in `track` what the method keeps in its locals between two sections
\* (the item, the message, the timeout).  Item addresses are not renumbered,
\* since the goroutines hold some.

\* the item addresses the goroutines hold
Kept(T) == {T[t].a : t \in Callers} \ {0}

\* An item that neither the channel nor a goroutine refers to is gone, and so
\* are the delivery fields of a message that no in-flight item refers to.
Scrub(S, T) ==
    LET used == UsedItems(S) \cup Kept(T)
        live == {S.item[a].Val : a \in used} \cup {T[t].m : t \in Callers}
    IN [S EXCEPT
          !.item = [a \in ItemIds |-> IF a \in used THEN S.item[a] ELSE NilItem],
          !.msgClientID = [m \in Msgs |-> IF m \in live THEN S.msgClientID[m]
                                          ELSE NoClient],
          !.msgDeliveryTS = [m \in Msgs |-> IF m \in live THEN S.msgDeliveryTS[m]
                                            ELSE 0]]

\* &pqueue.Item{...}: an address nobody refers to
TrackFree == ItemIds \ (UsedItems(Cur) \cup Kept(track))
TrackNewItem == CHOOSE a \in TrackFree : \A b \in TrackFree : a <= b

\* the channel becomes S
SetChannel(S) ==
    /\ memoryMsgChan' = S.memoryMsgChan
    /\ backend' = S.backend
    /\ backendState' = S.backendState
    /\ held' = S.held
    /\ sequence' = S.sequence
    /\ msgClientID' = S.msgClientID
    /\ msgDeliveryTS' = S.msgDeliveryTS
    /\ item' = S.item
    /\ inFlightMessages' = S.inFlightMessages
    /\ inFlightPQ' = S.inFlightPQ
    /\ deferredMessages' = S.deferredMessages
    /\ deferredPQ' = S.deferredPQ
    /\ clients' = S.clients
    /\ paused' = S.paused
    /\ exitFlag' = S.exitFlag
    /\ messageCount' = S.messageCount
    /\ requeueCount' = S.requeueCount
    /\ timeoutCount' = S.timeoutCount
    /\ teardowns' = S.teardowns
    /\ deleterDone' = S.deleterDone
    /\ deleterPending' = S.deleterPending
    /\ callbackCalls' = S.callbackCalls
    /\ panicked' = S.panicked

\* one section: the channel becomes S, the goroutines' locals T; H is the
\* messages' history after it.  A panic ends the process.
TrackStep(S, T, H) ==
    /\ ~panicked
    /\ SetChannel(Scrub(S, T))
    /\ track' = IF S.panicked THEN track ELSE T
    /\ hist' = IF S.panicked THEN hist ELSE H
    /\ UNCHANGED <<now, ephemeral, memQueueSize, last, threadVars,
                   pq, pqOut, pqOp, script, lk>>

Returns(t) == [track EXCEPT ![t] = Idle]
At(t, label, m, a, timeout) ==
    [track EXCEPT ![t] = [pc |-> label, m |-> m, a |-> a, timeout |-> timeout]]

\* the goroutines inside a sweep hold the exit lock for reading
SweepLabels == {"processInFlightQueue", "inFlight.delete", "inFlight.put",
                "processDeferredQueue", "deferred.delete", "deferred.put"}

\* PutMessage, which takes no tracker lock, in one step
TrackPutMessage(rcv) ==
    /\ sequence < MaxMsgs
    /\ \E r \in {putMessage([Cur EXCEPT !.sequence = NewGUID], NewGUID, TRUE, rcv)} :
          TrackStep(r.S, track, [hist EXCEPT ![NewGUID].acc = (r.err = "nil")])

\* a consumer receives the next message
TrackDequeue ==
    \/ /\ memoryMsgChan # <<>>
       /\ TrackStep([Cur EXCEPT !.memoryMsgChan = Tail(@),
                                !.held = @ \cup {Head(memoryMsgChan)}], track, hist)
    \/ /\ backend # <<>>
       /\ backendState = "open"
       /\ TrackStep([Cur EXCEPT !.backend = Tail(@), !.held = @ \cup {Head(backend)}],
                    track, hist)

\* StartInFlightTimeout up to the return of pushInFlightMessage (lines 444-451)
TrackStartPush(t, m, clientID, timeout) ==
    /\ track[t].pc = "idle"
    /\ hist[m].del < MaxDeliveries
    /\ TrackFree # {}
    /\ \E a \in {TrackNewItem} :
       \E r \in {pushInFlightMessage(
                    [Cur EXCEPT !.msgClientID[m] = clientID, !.msgDeliveryTS[m] = now,
                                !.item[a] = [Val |-> m, Priority |-> now + timeout,
                                             Index |-> 0]], a)} :
          /\ r.err = "nil"
          /\ TrackStep([r.S EXCEPT !.held = @ \ {m}], At(t, "addToInFlightPQ", m, a, 0),
                       [hist EXCEPT ![m].del = @ + 1])

\* addToInFlightPQ (line 455) and the return
TrackStartHeap(t) ==
    /\ track[t].pc = "addToInFlightPQ"
    /\ TrackStep(addToInFlightPQ(Cur, track[t].a), Returns(t), hist)

\* FinishMessage: popInFlightMessage (line 347)
TrackFinishPop(t, clientID, id) ==
    /\ track[t].pc = "idle"
    /\ \E r \in {popInFlightMessage(Cur, clientID, id, FALSE)} :
          /\ r.err = "nil"
          /\ TrackStep(r.S, At(t, "FinishMessage", id, r.item, 0), hist)

\* FinishMessage: removeFromInFlightPQ (line 351) and the return of nil
TrackFinishRemove(t) ==
    /\ track[t].pc = "FinishMessage"
    /\ TrackStep(removeFromInFlightPQ(Cur, track[t].a), Returns(t),
                 [hist EXCEPT ![track[t].m].fin = @ + 1])

\* RequeueMessage: popInFlightMessage (line 366)
TrackRequeuePop(t, clientID, id, timeout) ==
    /\ track[t].pc = "idle"
    /\ \E r \in {popInFlightMessage(Cur, clientID, id, FALSE)} :
          /\ r.err = "nil"
          /\ TrackStep(r.S, At(t, "RequeueMessage", id, r.item, timeout), hist)

\* RequeueMessage: removeFromInFlightPQ and the counter (lines 370-371)
TrackRequeueRemove(t) ==
    /\ track[t].pc = "RequeueMessage"
    /\ TrackStep([removeFromInFlightPQ(Cur, track[t].a) EXCEPT !.requeueCount = @ + 1],
                 At(t, IF track[t].timeout = 0 THEN "requeue.put" ELSE "requeue.defer",
                    track[t].m, 0, track[t].timeout),
                 hist)

\* RequeueMessage with timeout 0: the exit lock, the test, the put (lines 373-381)
TrackRequeuePut(t, rcv) ==
    /\ track[t].pc = "requeue.put"
    /\ IF exitFlag = 1
       THEN TrackStep(Cur, Returns(t), [hist EXCEPT ![track[t].m].exiting = @ + 1])
       ELSE TrackStep(put(Cur, track[t].m, TRUE, rcv).S, Returns(t),
                      [hist EXCEPT ![track[t].m].req = @ + 1])

\* PutMessageDeferred up to the call of StartDeferredTimeout (line 319)
TrackPutDeferred(t, timeout) ==
    /\ track[t].pc = "idle"
    /\ sequence < MaxMsgs
    /\ TrackStep([Cur EXCEPT !.sequence = NewGUID, !.messageCount = @ + 1],
                 At(t, "put.defer", NewGUID, 0, timeout),
                 [hist EXCEPT ![NewGUID].acc = TRUE])

\* StartDeferredTimeout up to the return of pushDeferredMessage (lines 460-464)
TrackDeferPush(t) ==
    /\ track[t].pc \in {"requeue.defer", "put.defer"}
    /\ TrackFree # {}
    /\ \E a \in {TrackNewItem} :
       \E r \in {pushDeferredMessage(
                    [Cur EXCEPT !.item[a] = [Val |-> track[t].m,
                                             Priority |-> now + track[t].timeout,
                                             Index |-> 0]], a)} :
          IF r.err = "nil"
          THEN TrackStep(r.S, At(t, IF track[t].pc = "put.defer" THEN "put.heap"
                                    ELSE "requeue.heap", track[t].m, a, 0), hist)
          ELSE TrackStep(r.S, Returns(t), hist)

\* addToDeferredPQ (line 468) and the return of nil
TrackDeferHeap(t) ==
    /\ track[t].pc \in {"requeue.heap", "put.heap"}
    /\ TrackStep(addToDeferredPQ(Cur, track[t].a), Returns(t),
                 IF track[t].pc = "requeue.heap"
                 THEN [hist EXCEPT ![track[t].m].req = @ + 1] ELSE hist)

\* TouchMessage up to the deadline (lines 325-335)
TrackTouchPeek(t, clientID, id, clientMsgTimeout) ==
    /\ track[t].pc = "idle"
    /\ \E r \in {popInFlightMessage(Cur, clientID, id, TRUE)} :
          /\ r.err = "nil"
          /\ TrackStep(r.S, At(t, "TouchMessage", id, r.item,
                               touchDeadline(now, clientMsgTimeout, msgDeliveryTS[id])),
                       hist)

\* TouchMessage: the new Priority and Update (lines 337-340)
TrackTouchUpdate(t) ==
    /\ track[t].pc = "TouchMessage"
    /\ \E S1 \in {[Cur EXCEPT !.item[track[t].a].Priority = track[t].timeout]} :
          TrackStep(SetIH(S1, Update(IH(S1), track[t].a)), Returns(t), hist)

\* processInFlightQueue(now): the exit lock and the test on entry (lines
\* 582-587), then PeekAndShift (lines 591-593); with nothing due it returns
TrackInFlightPeek(t) ==
    /\ track[t].pc \in {"idle", "processInFlightQueue"}
    /\ track[t].pc = "idle" => exitFlag = 0
    /\ \E r \in {PeekAndShift(IH(Cur), now)} :
          IF r.item = 0
          THEN track[t].pc # "idle" /\ TrackStep(Cur, Returns(t), hist)
          ELSE TrackStep(SetIH(Cur, r.H),
                         At(t, "inFlight.delete", item[r.item].Val, r.item, 0), hist)

\* processInFlightQueue: the deletion from the map (lines 600-602)
TrackInFlightDelete(t) ==
    /\ track[t].pc = "inFlight.delete"
    /\ TrackStep([Cur EXCEPT !.inFlightMessages[track[t].m] = 0],
                 At(t, "inFlight.put", track[t].m, 0, 0), hist)

\* processInFlightQueue: the counter, the consumer, the put (lines 604-611)
TrackInFlightPut(t, rcv) ==
    /\ track[t].pc = "inFlight.put"
    /\ TrackStep(put([Cur EXCEPT !.timeoutCount = @ + 1], track[t].m, TRUE, rcv).S,
                 At(t, "processInFlightQueue", 0, 0, 0),
                 [hist EXCEPT ![track[t].m].tmo = @ + 1])

\* processDeferredQueue(now): entry and PeekAndShift (lines 552-562)
TrackDeferredPeek(t) ==
    /\ track[t].pc \in {"idle", "processDeferredQueue"}
    /\ track[t].pc = "idle" => exitFlag = 0
    /\ \E r \in {PeekAndShift(DH(Cur), now)} :
          IF r.item = 0
          THEN track[t].pc # "idle" /\ TrackStep(Cur, Returns(t), hist)
          ELSE TrackStep(SetDH(Cur, r.H),
                         At(t, "deferred.delete", item[r.item].Val, r.item, 0), hist)

\* processDeferredQueue: the deletion from the map (lines 569-571)
TrackDeferredDelete(t) ==
    /\ track[t].pc = "deferred.delete"
    /\ TrackStep([Cur EXCEPT !.deferredMessages[track[t].m] = 0],
                 At(t, "deferred.put", track[t].m, 0, 0), hist)

\* processDeferredQueue: the put (line 573)
TrackDeferredPut(t, rcv) ==
    /\ track[t].pc = "deferred.put"
    /\ TrackStep(put(Cur, track[t].m, TRUE, rcv).S,
                 At(t, "processDeferredQueue", 0, 0, 0), hist)

\* Close() in one step, once no goroutine holds the exit lock
TrackClose(ordI, ordD) ==
    /\ exitFlag = 0
    /\ \A t \in Callers : track[t].pc \notin SweepLabels
    /\ TrackStep(exit(Cur, FALSE, ordI, ordD, TRUE).S, track, hist)

\* ------------------------------------------------------- the four locks
\* Every method is here the sequence of lock operations it performs, in the
\* order of its code; where the code branches (an early return, a loop) the
\* method has one sequence per path.
Lock(m) == <<"Lock", m>>
Unlock(m) == <<"Unlock", m>>
RLock(m) == <<"RLock", m>>
RUnlock(m) == <<"RUnlock", m>>

\* a critical section of one of the two tracker locks
inFlightSection == <<Lock("inFlightMutex"), Unlock("inFlightMutex")>>
deferredSection == <<Lock("deferredMutex"), Unlock("deferredMutex")>>

\* flush that takes deferredMutex inside the inFlightMutex section
flushLocksNested ==
    <<Lock("inFlightMutex"), Lock("deferredMutex"),
      Unlock("deferredMutex"), Unlock("inFlightMutex")>>

initPQLocks == inFlightSection \o deferredSection
EmptyLocks == <<Lock("RWMutex")>> \o initPQLocks \o <<Unlock("RWMutex")>>
flushLocks == inFlightSection \o deferredSection

\* c.exit: the compare-and-swap lost; Delete; Close
exitLocks ==
    LET closing == <<Lock("exitMutex"), RLock("RWMutex"), RUnlock("RWMutex")>> IN
    { <<Lock("exitMutex"), Unlock("exitMutex")>>,
      closing \o EmptyLocks \o <<Unlock("exitMutex")>>,
      closing \o flushLocks \o <<Unlock("exitMutex")>> }

doPauseLocks == <<RLock("RWMutex"), RUnlock("RWMutex")>>
PutMessageLocks == <<RLock("exitMutex"), RUnlock("exitMutex")>>

\* pushDeferredMessage alone (the id is already deferred), or followed by
\* addToDeferredPQ
StartDeferredTimeoutLocks == {deferredSection, deferredSection \o deferredSection}

\* pushInFlightMessage alone (the id is already in flight), or followed by
\* addToInFlightPQ
StartInFlightTimeoutLocks == {inFlightSection, inFlightSection \o inFlightSection}

\* popInFlightMessage alone (an error), or followed by the Update section
TouchMessageLocks == {inFlightSection, inFlightSection \o inFlightSection}

\* popInFlightMessage alone (an error), or followed by removeFromInFlightPQ
FinishMessageLocks == {inFlightSection, inFlightSection \o inFlightSection}

\* the same, then the put under the exit read lock or StartDeferredTimeout
RequeueMessageLocks ==
    {inFlightSection,
     inFlightSection \o inFlightSection \o <<RLock("exitMutex"), RUnlock("exitMutex")>>}
      \cup {inFlightSection \o inFlightSection \o d : d \in StartDeferredTimeoutLocks}

\* exiting; registered or over the limit; inserted
AddClientLocks ==
    LET reading == <<RLock("exitMutex"), RLock("RWMutex"), RUnlock("RWMutex")>> IN
    { <<RLock("exitMutex"), RUnlock("exitMutex")>>,
      reading \o <<RUnlock("exitMutex")>>,
      reading \o <<Lock("RWMutex"), Unlock("RWMutex"), RUnlock("exitMutex")>> }

\* exiting; not registered; removed
RemoveClientLocks ==
    LET reading == <<RLock("exitMutex"), RLock("RWMutex"), RUnlock("RWMutex")>> IN
    { <<RLock("exitMutex"), RUnlock("exitMutex")>>,
      reading \o <<RUnlock("exitMutex")>>,
      reading \o <<Lock("RWMutex"), Unlock("RWMutex"), RUnlock("exitMutex")>> }

\* exiting; nothing due; one item released and nothing more due
processDeferredQueueLocks ==
    { <<RLock("exitMutex"), RUnlock("exitMutex")>>,
      <<RLock("exitMutex")>> \o deferredSection \o <<RUnlock("exitMutex")>>,
      <<RLock("exitMutex")>> \o deferredSection \o deferredSection
         \o deferredSection \o <<RUnlock("exitMutex")>> }

processInFlightQueueLocks ==
    { <<RLock("exitMutex"), RUnlock("exitMutex")>>,
      <<RLock("exitMutex")>> \o inFlightSection \o <<RUnlock("exitMutex")>>,
      <<RLock("exitMutex")>> \o inFlightSection \o inFlightSection
         \o <<RLock("RWMutex"), RUnlock("RWMutex")>>
         \o inFlightSection \o <<RUnlock("exitMutex")>> }

LockScripts ==
    exitLocks \cup {EmptyLocks, doPauseLocks, PutMessageLocks}
       \cup StartDeferredTimeoutLocks \cup StartInFlightTimeoutLocks
       \cup TouchMessageLocks \cup FinishMessageLocks \cup RequeueMessageLocks
       \cup AddClientLocks \cup RemoveClientLocks
       \cup processDeferredQueueLocks \cup processInFlightQueueLocks

\* the read-write locks (sync.RWMutex); the other two are sync.Mutex
RWLocks == {"exitMutex", "RWMutex"}

Free(m) == lk[m].w = 0 /\ \A u \in Callers : lk[m].r[u] = 0

\* the goroutine's next lock operation has to wait: Lock until nobody holds
\* the lock, RLock while a writer holds it or waits for it
Blocked(t) ==
    /\ script[t] # <<>>
    /\ \/ Head(script[t])[1] = "Lock" /\ ~Free(Head(script[t])[2])
       \/ /\ Head(script[t])[1] = "RLock"
          /\ lk[Head(script[t])[2]].w # 0 \/ lk[Head(script[t])[2]].q # {}

LockStep(t) ==
    /\ script[t] # <<>>
    /\ script' = [script EXCEPT ![t] = Tail(@)]
    /\ UNCHANGED <<channelVars, threadVars, last, pq, pqOut, pqOp, track, hist>>

\* a goroutine calls a method of the channel
LockCall(t, s) ==
    /\ script[t] = <<>>
    /\ script' = [script EXCEPT ![t] = s]
    /\ UNCHANGED <<lk, channelVars, threadVars, last, pq, pqOut, pqOp, track, hist>>

\* Lock() returns
LockAcquire(t) ==
    /\ LockStep(t)
    /\ Head(script[t])[1] = "Lock"
    /\ ~Blocked(t)
    /\ lk' = [lk EXCEPT ![Head(script[t])[2]].w = t, ![Head(script[t])[2]].q = @ \ {t}]

\* Lock() on a read-write lock that is held: from now on RLock() waits
LockWait(t) ==
    /\ script[t] # <<>>
    /\ Head(script[t])[1] = "Lock"
    /\ Head(script[t])[2] \in RWLocks
    /\ Blocked(t)
    /\ t \notin lk[Head(script[t])[2]].q
    /\ lk' = [lk EXCEPT ![Head(script[t])[2]].q = @ \cup {t}]
    /\ UNCHANGED <<script, channelVars, threadVars, last, pq, pqOut, pqOp, track, hist>>

\* RLock() returns
LockRead(t) ==
    /\ LockStep(t)
    /\ Head(script[t])[1] = "RLock"
    /\ ~Blocked(t)
    /\ lk' = [lk EXCEPT ![Head(script[t])[2]].r[t] = @ + 1]

\* Unlock() and RUnlock()
LockRelease(t) ==
    /\ LockStep(t)
    /\ \/ /\ Head(script[t])[1] = "Unlock"
          /\ lk' = [lk EXCEPT ![Head(script[t])[2]].w = 0]
       \/ /\ Head(script[t])[1] = "RUnlock"
          /\ lk' = [lk EXCEPT ![Head(script[t])[2]].r[t] = @ - 1]

\* ---------------------------------------------------------- specifications
\* The channel is checked in three parts that share every definition above.
\* Spec is the delivery engine: publication, delivery, acknowledgement,
\* the two sweeps and the clock.
Next ==
    \/ Tick
    \/ Dequeue
    \/ \E bok \in BackendOutcomes, rcv \in ReceiverChoices : PutMessage(bok, rcv)
    \/ \E timeout \in Timeouts : PutMessageDeferred(timeout)
    \/ \E m \in held \cup InFlightIds(Cur), c \in Clients, timeout \in Timeouts :
          StartInFlightTimeout(m, c, timeout)
    \/ \E m \in (IF sequence < MaxMsgs THEN {NewGUID} ELSE {}) \cup DeferredIds(Cur),
          timeout \in Timeouts :
          StartDeferredTimeout(m, timeout)
    \/ \E c \in Clients, id \in Msgs, timeout \in Timeouts : TouchMessage(c, id, timeout)
    \/ \E c \in Clients, id \in Msgs : FinishMessage(c, id)
    \/ \E t \in 0..now, bok \in BackendOutcomes, rcv \in ReceiverChoices :
          processInFlightQueue(t, bok, rcv)
    \/ \E t \in 0..now, bok \in BackendOutcomes, rcv \in ReceiverChoices :
          processDeferredQueue(t, bok, rcv)

Spec == Init /\ [][Next]_vars

\* LifecycleSpec is the consumer registry, pause, Empty and shutdown, over a
\* channel that messages flow through (publication, delivery to consumer 1
\* with timeout 0, deferred publication and requeue, the clock at 0).
LifecycleNext ==
    \/ Dequeue
    \/ \E bok \in BackendOutcomes, rcv \in ReceiverChoices : PutMessage(bok, rcv)
    \/ PutMessageDeferred(0)
    \/ \E m \in held \cup InFlightIds(Cur) : StartInFlightTimeout(m, 1, 0)
    \/ \E m \in (IF sequence < MaxMsgs THEN {NewGUID} ELSE {}) \cup DeferredIds(Cur) :
          StartDeferredTimeout(m, 0)
    \/ \E id \in Msgs, timeout \in Timeouts, bok \in BackendOutcomes,
          rcv \in ReceiverChoices :
          RequeueMessage(1, id, timeout, bok, rcv)
    \/ \E c \in Clients : AddClient(c)
    \/ \E c \in Clients : RemoveClient(c)
    \/ DeleterRun
    \/ Pause
    \/ UnPause
    \/ Empty
    \/ Delete
    \/ \E ordI \in Orders(InFlightIds(Cur)), ordD \in Orders(DeferredIds(Cur)),
          bok \in BackendOutcomes :
          Close(ordI, ordD, bok)

LifecycleSpec == Init /\ [][LifecycleNext]_vars

\* ExitSpec is shutdown under concurrency: every goroutine calls Delete or
\* Close once and runs c.exit step by step, interleaved with the others and
\* with the traffic that fills the channel.  PutMessage and AddClient take
\* the exit lock for reading, so they wait while a goroutine holds it.
ExitNext ==
    \/ \E t \in Threads, deleted \in BOOLEAN : ExitLock(t, deleted)
    \/ \E t \in Threads : ExitCAS(t)
    \/ \E t \in Threads : ExitCloseClients(t)
    \/ \E t \in Threads, ordI \in Orders(InFlightIds(Cur)),
          ordD \in Orders(DeferredIds(Cur)), bok \in BackendOutcomes :
          ExitTeardown(t, ordI, ordD, bok)
    \/ Dequeue
    \/ \E bok \in BackendOutcomes, rcv \in ReceiverChoices :
          exitMutex = 0 /\ PutMessage(bok, rcv)
    \/ PutMessageDeferred(0)
    \/ \E m \in held : StartInFlightTimeout(m, 1, 0)
    \/ \E c \in Clients : exitMutex = 0 /\ AddClient(c)

ExitSpec == Init /\ [][ExitNext]_vars

\* RegistrySpec is the consumer registry under concurrency: goroutines call
\* AddClient and RemoveClient again and again and run them lock step by lock
\* step; the goroutines RemoveClient starts run c.deleter.Do; Delete() ends
\* the channel.
RegistryNext ==
    \/ \E t \in Callers, c \in Clients : AddClientRead(t, c)
    \/ \E t \in Callers : AddClientInsert(t)
    \/ \E t \in Callers, c \in Clients : RemoveClientRead(t, c)
    \/ \E t \in Callers : RemoveClientDelete(t)
    \/ \E t \in Callers : RemoveClientSpawn(t)
    \/ DeleterRun
    \/ DeleteAlone

RegistrySpec == Init /\ [][RegistryNext]_vars

\* A goroutine that is running keeps running: RemoveClient reaches its return,
\* and the goroutine it started reaches c.deleter.Do.
RegistryFairSpec ==
    /\ RegistrySpec
    /\ \A t \in Callers : WF_vars(RemoveClientDelete(t)) /\ WF_vars(RemoveClientSpawn(t))
    /\ WF_vars(DeleterRun)

\* QueueSpec is the priority queue used on its own, through its exported
\* methods, with valid arguments (Pop of a queue that holds an item, Remove
\* of a position below Len).
QueueNext ==
    \/ \E p \in Priorities : QueuePush(p)
    \/ QueuePop
    \/ \E i \in 0..MaxHeap - 1 : QueueRemove(i)
    \/ \E t \in Priorities : QueuePeekAndShift(t)
    \/ \E a \in HeapItems, p \in Priorities : QueueUpdate(a, p)

QueueSpec == Init /\ [][QueueNext]_vars

\* LockSpec is the channel's locking alone: goroutines call the channel's
\* methods, any method at any time and along any of its paths, and perform
\* its lock operations one by one.
LockNext ==
    \/ \E t \in Callers, s \in LockScripts : LockCall(t, s)
    \/ \E t \in Callers : LockAcquire(t)
    \/ \E t \in Callers : LockWait(t)
    \/ \E t \in Callers : LockRead(t)
    \/ \E t \in Callers : LockRelease(t)

LockSpec == Init /\ [][LockNext]_vars

\* OrderSpec is the order of delivery: a channel without memory channel
\* (MemQueueSize 0) or with room for MaxBuffer messages, through which
\* messages go round (publication, delivery to consumer 1 with timeout 0,
\* immediate requeue, deferred publication, the two sweeps), the clock at 0.
OrderNext ==
    \/ Dequeue
    \/ \E bok \in BackendOutcomes, rcv \in ReceiverChoices : PutMessage(bok, rcv)
    \/ PutMessageDeferred(0)
    \/ \E m \in held : StartInFlightTimeout(m, 1, 0)
    \/ \E id \in Msgs, bok \in BackendOutcomes, rcv \in ReceiverChoices :
          RequeueMessage(1, id, 0, bok, rcv)
    \/ \E bok \in BackendOutcomes, rcv \in ReceiverChoices :
          processInFlightQueue(0, bok, rcv)
    \/ \E bok \in BackendOutcomes, rcv \in ReceiverChoices :
          processDeferredQueue(0, bok, rcv)

OrderSpec == InitOf({0, MaxBuffer}) /\ [][OrderNext]_vars

\* TrackerSpec is the two trackers under concurrency: goroutines deliver,
\* touch, finish and requeue messages and run the two sweeps, one lock
\* section per step, while messages are published and the channel is closed.
\* The clock stands at 0; a timeout of 0 is due at once, one of 1 is not.
TrackerNext ==
    \/ \E rcv \in ReceiverChoices : TrackPutMessage(rcv)
    \/ TrackDequeue
    \/ \E t \in Callers, m \in held, timeout \in Timeouts : TrackStartPush(t, m, 1, timeout)
    \/ \E t \in Callers : TrackStartHeap(t)
    \/ \E t \in Callers, id \in Msgs : TrackFinishPop(t, 1, id)
    \/ \E t \in Callers : TrackFinishRemove(t)
    \/ \E t \in Callers, id \in Msgs, timeout \in Timeouts : TrackRequeuePop(t, 1, id, timeout)
    \/ \E t \in Callers : TrackRequeueRemove(t)
    \/ \E t \in Callers, rcv \in ReceiverChoices : TrackRequeuePut(t, rcv)
    \/ \E t \in Callers, timeout \in Timeouts : TrackPutDeferred(t, timeout)
    \/ \E t \in Callers : TrackDeferPush(t)
    \/ \E t \in Callers : TrackDeferHeap(t)
    \/ \E t \in Callers, id \in Msgs, timeout \in Timeouts : TrackTouchPeek(t, 1, id, timeout)
    \/ \E t \in Callers : TrackTouchUpdate(t)
    \/ \E t \in Callers : TrackInFlightPeek(t)
    \/ \E t \in Callers : TrackInFlightDelete(t)
    \/ \E t \in Callers, rcv \in ReceiverChoices : TrackInFlightPut(t, rcv)
    \/ \E t \in Callers : TrackDeferredPeek(t)
    \/ \E t \in Callers : TrackDeferredDelete(t)
    \/ \E t \in Callers, rcv \in ReceiverChoices : TrackDeferredPut(t, rcv)
    \/ \E ordI \in Orders(InFlightIds(Cur)), ordD \in Orders(DeferredIds(Cur)) :
          TrackClose(ordI, ordD)

\* a durable channel with a buffered memory queue
TrackerInit == InitOf({MaxMemQueueSize}) /\ ~ephemeral

TrackerSpec == TrackerInit /\ [][TrackerNext]_vars

\* ================================================================== claims
\* A call is judged on the state it is made in: the handler's operator is
\* applied to the current channel, for every argument, in every reachable
\* state in which the process is alive.
Owns(c, id) == inFlightMessages[id] # 0 /\ msgClientID[id] = c

\* what a later call for `id` by anyone returns, on channel S
LaterCalls(S, id) ==
    {touchMessage(S, c, id, timeout, now).err : c \in Clients, timeout \in Timeouts}
      \cup {finishMessage(S, c, id).err : c \in Clients}
      \cup {requeueMessage(S, c, id, timeout, now, TRUE, FALSE).err :
               c \in Clients, timeout \in Timeouts}

\* C1: FinishMessage by the owner of an in-flight message returns ok, removes
\* the message's entry from the in-flight map and the message's own item, and
\* no other, from the in-flight heap; afterwards TouchMessage, FinishMessage
\* and RequeueMessage for that id fail with 'ID not in flight' for everyone.
C1_FinishRemovesOwnItem ==
    ~panicked =>
    \A c \in Clients, id \in Msgs :
       Owns(c, id) =>
          \E r \in {finishMessage(Cur, c, id)} :
             /\ r.err = "nil"
             /\ ~r.S.panicked
             /\ r.S.inFlightMessages = [inFlightMessages EXCEPT ![id] = 0]
             /\ SeqRange(r.S.inFlightPQ) = SeqRange(inFlightPQ) \ {inFlightMessages[id]}
             /\ LaterCalls(r.S, id) = {"ID not in flight"}

\* C2: TouchMessage, FinishMessage and RequeueMessage by a consumer that does
\* not own the in-flight message return 'client does not own message' and
\* leave the channel (in-flight map and heap, deadlines, backlog, deferred
\* tracker, requeueCount, everything else) as it was.
C2_OnlyTheOwner ==
    ~panicked =>
    \A A \in Clients, id \in Msgs :
       (inFlightMessages[id] # 0 /\ msgClientID[id] # A) =>
          /\ \A timeout \in Timeouts :
                touchMessage(Cur, A, id, timeout, now) =
                   [S |-> Cur, err |-> "client does not own message"]
          /\ finishMessage(Cur, A, id) =
                [S |-> Cur, err |-> "client does not own message"]
          /\ \A timeout \in Timeouts, bok \in BOOLEAN, rcv \in BOOLEAN :
                requeueMessage(Cur, A, id, timeout, now, bok, rcv) =
                   [S |-> Cur, err |-> "client does not own message"]

\* both messages are in flight, with different owners and different deadlines,
\* and each consumer's Finish of the other's message is refused
C2_Witness ==
    /\ ~panicked
    /\ Owns(1, 1) /\ Owns(2, 2)
    /\ item[inFlightMessages[1]].Priority # item[inFlightMessages[2]].Priority
    /\ finishMessage(Cur, 2, 1).err = "client does not own message"
    /\ finishMessage(Cur, 1, 2).err = "client does not own message"

\* the in-flight messages whose deadline is at or before t
DueInFlight(t) ==
    {id \in Msgs : inFlightMessages[id] # 0 /\ item[inFlightMessages[id]].Priority <= t}

\* where a message put back is found: the memory channel, the backend, or
\* the hands of the consumer that received it
Backlog(S) == SeqRange(S.memoryMsgChan) \cup SeqRange(S.backend) \cup S.held

\* C3: processInFlightQueue(t) on a channel that is not exiting releases every
\* in-flight item whose deadline is <= t (out of the heap and the map,
\* timeoutCount up by one each, TimedOutMessage once to a registered owner,
\* the message put back), leaves every item whose deadline is > t in map and
\* heap, and returns true iff it released something.  The put is judged with a
\* backend that accepts and keeps the message.
C3_SweepReleasesTheDue ==
    (~panicked /\ exitFlag = 0 /\ ~ephemeral) =>
    \A t \in 0..now :
       \E r \in {processInFlightQueueOp(Cur, t, TRUE, FALSE)} :
          /\ ~r.S.panicked
          /\ \A id \in DueInFlight(t) :
                /\ r.S.inFlightMessages[id] = 0
                /\ inFlightMessages[id] \notin SeqRange(r.S.inFlightPQ)
                /\ id \in Backlog(r.S)
          /\ r.S.timeoutCount = timeoutCount + Cardinality(DueInFlight(t))
          /\ \A c \in Clients :
                r.S.calls[c] = IF c \in clients
                               THEN Cardinality({id \in DueInFlight(t) : msgClientID[id] = c})
                               ELSE 0
          /\ \A id \in InFlightIds(Cur) \ DueInFlight(t) :
                /\ r.S.inFlightMessages[id] = inFlightMessages[id]
                /\ inFlightMessages[id] \in SeqRange(r.S.inFlightPQ)
          /\ r.dirty = (DueInFlight(t) # {})

\* the times a sweep may be called with: every deadline the bounds allow
SweepTimes == 0..(MaxTime + MaxTimeout)

\* C4: processDeferredQueue(t) takes every deferred message scheduled at
\* t0 <= t out of the deferred map and heap and puts it (into the backlog when
\* the channel keeps what it is given: a durable backend whose append
\* succeeds), and leaves every deferred message scheduled at t0 > t in the
\* deferred map and heap, whatever other deferred messages there are.
C4_DeferredReleasedWhenDue ==
    (~panicked /\ exitFlag = 0) =>
    \A t \in SweepTimes, bok \in BackendOutcomes, rcv \in ReceiverChoices :
       \E r \in {processDeferredQueueOp(Cur, t, bok, rcv)} :
          /\ ~r.S.panicked
          /\ \A id \in DeferredIds(Cur) :
                IF item[deferredMessages[id]].Priority <= t
                THEN /\ r.S.deferredMessages[id] = 0
                     /\ deferredMessages[id] \notin SeqRange(r.S.deferredPQ)
                     /\ (~ephemeral /\ bok) => id \in Backlog(r.S)
                ELSE /\ r.S.deferredMessages[id] = deferredMessages[id]
                     /\ deferredMessages[id] \in SeqRange(r.S.deferredPQ)
          /\ r.dirty = (\E id \in DeferredIds(Cur) :
                           item[deferredMessages[id]].Priority <= t)

\* a sweep has just released one deferred message into the backlog of a
\* durable channel and left behind another that is due later
C4_Witness ==
    /\ ~panicked /\ ~ephemeral
    /\ last.op = "processDeferredQueue" /\ last.ret = "true"
    /\ \E id \in DeferredIds(Cur) : item[deferredMessages[id]].Priority > now
    /\ \E id \in Backlog(Cur) : deferredMessages[id] = 0 /\ inFlightMessages[id] = 0

Smaller(a, b) == IF a <= b THEN a ELSE b

\* C5: after a successful TouchMessage(clientID, id, newTimeout) by the owner
\* at time now, the item's deadline is min(now + newTimeout, deliveryTS +
\* MaxMsgTimeout), hence never past deliveryTS + MaxMsgTimeout, and the
\* message is where it was: same map entry, same items in the heap, same owner
\* and delivery time.
C5_TouchDeadline ==
    ~panicked =>
    \A c \in Clients, id \in Msgs, newTimeout \in Timeouts :
       Owns(c, id) =>
          \E r \in {touchMessage(Cur, c, id, newTimeout, now)} :
             (r.err = "nil" /\ ~r.S.panicked) =>
                /\ r.S.item[inFlightMessages[id]].Priority =
                      Smaller(now + newTimeout, msgDeliveryTS[id] + MaxMsgTimeout)
                /\ r.S.item[inFlightMessages[id]].Priority <=
                      msgDeliveryTS[id] + MaxMsgTimeout
                /\ r.S.inFlightMessages = inFlightMessages
                /\ SeqRange(r.S.inFlightPQ) = SeqRange(inFlightPQ)
                /\ r.S.msgClientID = msgClientID
                /\ r.S.msgDeliveryTS = msgDeliveryTS

\* a Touch has just succeeded on a message, still in map and heap, whose
\* deadline sits at the cap deliveryTS + MaxMsgTimeout, below what the
\* largest timeout asked for now would give
C5_Witness ==
    /\ ~panicked
    /\ last.op = "TouchMessage" /\ last.ret = "nil"
    /\ \E id \in InFlightIds(Cur) :
          /\ inFlightMessages[id] \in SeqRange(inFlightPQ)
          /\ msgDeliveryTS[id] + MaxMsgTimeout < now + MaxTimeout
          /\ item[inFlightMessages[id]].Priority = msgDeliveryTS[id] + MaxMsgTimeout

\* c.Depth() of channel S
DepthIn(S) == DepthOf(S.memoryMsgChan, S.backend)

\* the buffer takes a message: the memory channel exists and is not full
HasRoom == HasMemChan /\ Len(memoryMsgChan) < memQueueSize

\* C6 as stated: a PutMessage that succeeds (nobody receiving at that moment)
\* raises Depth() by one and messageCount by one; one that fails changes
\* neither.
C6_PutRaisesDepth ==
    ~panicked =>
    \A m \in Msgs, bok \in BackendOutcomes :
       \E r \in {putMessage(Cur, m, bok, FALSE)} :
          IF r.err = "nil"
          THEN /\ DepthIn(r.S) = Depth + 1
               /\ r.S.messageCount = messageCount + 1
          ELSE /\ DepthIn(r.S) = Depth
               /\ r.S.messageCount = messageCount

\* C6 amended: a PutMessage that succeeds raises messageCount by one, and
\* Depth() by one unless the channel is ephemeral with no room in its buffer
\* (then the message is dropped and Depth() stays); the message goes to the
\* buffer when it has room and to the backend otherwise.  A PutMessage fails
\* with 'exiting' exactly on an exiting channel, else only on a backend append
\* error, and a failed one changes nothing.
C6_PutRaisesDepthUnlessDropped ==
    ~panicked =>
    \A m \in Msgs, bok \in BackendOutcomes :
       \E r \in {putMessage(Cur, m, bok, FALSE)} :
          /\ (r.err = "exiting") = (exitFlag = 1)
          /\ (r.err = "backend error") = (exitFlag = 0 /\ ~HasRoom /\ ~ephemeral /\ ~bok)
          /\ r.err \in {"nil", "exiting", "backend error"}
          /\ r.err # "nil" => r.S = Cur
          /\ r.err = "nil" =>
                /\ r.S.messageCount = messageCount + 1
                /\ r.S.memoryMsgChan =
                      IF HasRoom THEN Append(memoryMsgChan, m) ELSE memoryMsgChan
                /\ r.S.backend =
                      IF HasRoom \/ ephemeral THEN backend ELSE Append(backend, m)
                /\ DepthIn(r.S) = IF ephemeral /\ ~HasRoom THEN Depth ELSE Depth + 1

\* an ephemeral channel has just accepted a message that is now nowhere:
\* every message ever created went through PutMessage, none is buffered,
\* held by a consumer, in flight or deferred
C6_Witness ==
    /\ ~panicked /\ ephemeral
    /\ last.op = "PutMessage" /\ last.ret = "nil"
    /\ messageCount = sequence
    /\ Depth = 0 /\ held = {}
    /\ InFlightIds(Cur) = {} /\ DeferredIds(Cur) = {}

\* C7: Depth() is the backlog buffer's length plus the backend's depth (zero
\* for an ephemeral channel, whose backend keeps nothing) and counts neither
\* in-flight nor deferred messages: StartInFlightTimeout, TouchMessage,
\* FinishMessage, StartDeferredTimeout, PutMessageDeferred and RequeueMessage
\* with timeout > 0 leave it unchanged, whatever they return.
C7_DepthIsBacklogOnly ==
    ~panicked =>
    /\ Depth = Len(memoryMsgChan) + Len(backend)
    /\ ephemeral => backend = <<>>
    /\ \A m \in Msgs, c \in Clients, timeout \in Timeouts :
          /\ CanAllocate(Cur) =>
                /\ DepthIn(startInFlightTimeout(Cur, m, c, timeout, now).S) = Depth
                /\ DepthIn(startDeferredTimeout(Cur, m, timeout, now).S) = Depth
                /\ DepthIn(putMessageDeferred(Cur, m, timeout, now)) = Depth
          /\ DepthIn(touchMessage(Cur, c, m, timeout, now).S) = Depth
          /\ DepthIn(finishMessage(Cur, c, m).S) = Depth
          /\ (timeout > 0 /\ (Owns(c, m) => CanAllocate(Cur))) =>
                \A bok \in BackendOutcomes, rcv \in ReceiverChoices :
                   DepthIn(requeueMessage(Cur, c, m, timeout, now, bok, rcv).S) = Depth

\* a message has just been put in flight while another waits in the backlog
\* and counts for Depth()
C7_Witness ==
    /\ ~panicked
    /\ last.op = "StartInFlightTimeout" /\ last.ret = "nil"
    /\ InFlightIds(Cur) # {}
    /\ Depth = 1
    /\ \E m \in Backlog(Cur) : inFlightMessages[m] = 0 /\ deferredMessages[m] = 0

\* C8: Empty() is total.  From any reachable state it leaves Depth() = 0
\* (buffer drained, backend emptied), the in-flight map and heap empty, the
\* deferred map and heap empty, every registered consumer (and nobody else)
\* asked once to Empty, and the registry, the paused flag, the exit flag and
\* the three counters as they were.
C8_EmptyIsTotal ==
    ~panicked =>
    \E S \in {empty(Cur)} :
       /\ ~S.panicked
       /\ DepthIn(S) = 0
       /\ S.memoryMsgChan = <<>> /\ S.backend = <<>>
       /\ InFlightIds(S) = {} /\ S.inFlightPQ = <<>>
       /\ DeferredIds(S) = {} /\ S.deferredPQ = <<>>
       /\ S.calls = [c \in Clients |-> IF c \in clients THEN 1 ELSE 0]
       /\ S.clients = clients
       /\ S.paused = paused
       /\ S.exitFlag = exitFlag
       /\ S.messageCount = messageCount
       /\ S.requeueCount = requeueCount
       /\ S.timeoutCount = timeoutCount

\* Empty has just run on a paused channel with a registered consumer, after
\* every message was published and one was requeued: the consumer was asked,
\* nothing is left, the counters and the flag are kept
C8_Witness ==
    /\ ~panicked
    /\ last.op = "Empty"
    /\ \E c \in clients : last.calls[c] = 1
    /\ \E c \in Clients \ clients : last.calls[c] = 0
    /\ sequence = MaxMsgs /\ messageCount >= 1 /\ requeueCount >= 1
    /\ paused = 1
    /\ Depth = 0 /\ InFlightIds(Cur) = {} /\ DeferredIds(Cur) = {}

\* what the channel holds and whom it serves
Holdings(S) ==
    [backlog |-> SeqRange(S.memoryMsgChan), backend |-> SeqRange(S.backend),
     inFlight |-> InFlightIds(S), inFlightPQ |-> SeqRange(S.inFlightPQ),
     deferred |-> DeferredIds(S), deferredPQ |-> SeqRange(S.deferredPQ),
     clients |-> S.clients]

\* channel S holds nothing, and serves nobody, that the current one does not
AddsNothing(S) ==
    /\ \A f \in DOMAIN Holdings(S) : Holdings(S)[f] \subseteq Holdings(Cur)[f]
    /\ Len(S.memoryMsgChan) <= Len(memoryMsgChan)
    /\ Len(S.backend) <= Len(backend)

\* C9: once the exiting flag is set, PutMessage, PutMessageDeferred,
\* StartDeferredTimeout, StartInFlightTimeout, RequeueMessage and AddClient add
\* nothing to the backlog, the backend, the in-flight tracker, the deferred
\* tracker or the registry, and both sweeps return false and change nothing.
C9_NothingAcceptedWhenExiting ==
    (~panicked /\ exitFlag = 1) =>
    \A m \in Msgs, c \in Clients, timeout \in Timeouts, bok \in BackendOutcomes :
       /\ AddsNothing(putMessage(Cur, m, bok, FALSE).S)
       /\ AddsNothing(addClient(Cur, c).S)
       /\ AddsNothing(requeueMessage(Cur, c, m, 0, now, bok, FALSE).S)
       /\ \A t \in SweepTimes :
             /\ processInFlightQueueOp(Cur, t, bok, FALSE) = [S |-> Cur, dirty |-> FALSE]
             /\ processDeferredQueueOp(Cur, t, bok, FALSE) = [S |-> Cur, dirty |-> FALSE]
       /\ CanAllocate(Cur) =>
             /\ AddsNothing(requeueMessage(Cur, c, m, timeout, now, bok, FALSE).S)
             /\ AddsNothing(putMessageDeferred(Cur, m, timeout, now))
             /\ AddsNothing(startDeferredTimeout(Cur, m, timeout, now).S)
             /\ AddsNothing(startInFlightTimeout(Cur, m, c, timeout, now).S)

\* the goroutines that won the compare-and-swap
Winners == {t \in Threads : pc[t] \in {"clients", "teardown"} \/ exitRet[t] = "nil"}

\* at most one goroutine is past the compare-and-swap, the teardown runs at
\* most once, and when every call has returned exactly one returned nil,
\* having torn the channel down its way, and the others returned 'exiting'
C10_OneWinner ==
    /\ Cardinality(Winners) <= 1
    /\ (exitFlag = 1) = (Winners # {})
    /\ teardowns = Cardinality({t \in Threads : exitRet[t] = "nil"})
    /\ \A t \in Threads :
          /\ (pc[t] = "done") = (exitRet[t] \in {"nil", "exiting"})
          /\ exitRet[t] = "nil" =>
                backendState = IF exitDeleted[t] THEN "deleted" ELSE "closed"
          /\ exitRet[t] = "exiting" => Winners \ {t} # {}
    /\ (\A t \in Threads : pc[t] = "done") =>
          /\ Cardinality({t \in Threads : exitRet[t] = "nil"}) = 1
          /\ teardowns = 1

\* exitFlag never goes back from 1 to 0, and the step in which a call
\* returns 'exiting' changes nothing of the channel
C10_Step ==
    /\ exitFlag = 1 => exitFlag' = 1
    /\ \A t \in Threads :
          (exitRet[t] = "none" /\ exitRet'[t] = "exiting") =>
             UNCHANGED <<now, ephemeral, memQueueSize, memoryMsgChan, backend,
                         backendState, held, sequence, msgClientID, msgDeliveryTS,
                         item, inFlightMessages, inFlightPQ, deferredMessages,
                         deferredPQ, clients, paused, exitFlag, messageCount,
                         requeueCount, timeoutCount, teardowns, deleterDone,
                         deleterPending, callbackCalls, panicked, last>>

\* C10: shutdown is idempotent.  Among concurrent (or successive) Delete()
\* and Close() calls exactly one wins the compare-and-swap of exitFlag from 0
\* to 1 and performs the teardown, once; every other call returns 'exiting'
\* and changes nothing; exitFlag never returns from 1 to 0.
C10_ShutdownOnce == []C10_OneWinner /\ [][C10_Step]_vars

\* every goroutine has returned: one Close won and flushed a message to the
\* backend, a Delete lost with 'exiting'
C10_Witness ==
    /\ \A t \in Threads : pc[t] = "done"
    /\ \E t \in Threads : exitRet[t] = "nil" /\ ~exitDeleted[t]
    /\ \E t \in Threads : exitRet[t] = "exiting" /\ exitDeleted[t]
    /\ backend # <<>>
    /\ clients # {}

\* how often m occurs in sequence q
Occurrences(q, m) == Cardinality({k \in 1..Len(q) : q[k] = m})

\* C11: when Close() completes on a durable channel whose backend takes every
\* append, the backend holds what it held, then the backlog buffer's messages
\* in their order, then every message of the in-flight tracker and then every
\* message of the deferred tracker (each appended once, in the order the map
\* was ranged over), and the backlog buffer is empty.  When Delete() completes
\* both trackers, the backlog buffer and the backend are empty.
C11_CloseFlushesDeleteEmpties ==
    (~panicked /\ exitFlag = 0) =>
    /\ \A ordI \in Orders(InFlightIds(Cur)), ordD \in Orders(DeferredIds(Cur)) :
          \E r \in {exit(Cur, FALSE, ordI, ordD, TRUE)} :
             /\ r.err = "nil"
             /\ r.S.memoryMsgChan = <<>>
             /\ r.S.backendState = "closed"
             /\ ~ephemeral =>
                   /\ r.S.backend = backend \o memoryMsgChan \o ordI \o ordD
                   /\ \A m \in Msgs :
                         Occurrences(r.S.backend, m) =
                            Occurrences(backend, m) + Occurrences(memoryMsgChan, m)
                              + (IF inFlightMessages[m] # 0 THEN 1 ELSE 0)
                              + (IF deferredMessages[m] # 0 THEN 1 ELSE 0)
    /\ \E r \in {exit(Cur, TRUE, <<>>, <<>>, TRUE)} :
          /\ r.err = "nil"
          /\ r.S.memoryMsgChan = <<>> /\ r.S.backend = <<>>
          /\ r.S.backendState = "deleted"
          /\ InFlightIds(r.S) = {} /\ r.S.inFlightPQ = <<>>
          /\ DeferredIds(r.S) = {} /\ r.S.deferredPQ = <<>>

\* Close has just returned on a durable channel that had one message in
\* flight and one deferred: both are in the backend, the buffer is empty
C11_Witness ==
    /\ ~panicked /\ ~ephemeral
    /\ last.op = "Close" /\ last.ret = "nil"
    /\ InFlightIds(Cur) # {} /\ DeferredIds(Cur) # {}
    /\ \A m \in InFlightIds(Cur) \cup DeferredIds(Cur) : Occurrences(backend, m) = 1
    /\ memoryMsgChan = <<>>

\* C12: a RequeueMessage(clientID, id, timeout) by the owner that returns ok
\* has removed the message from the in-flight map and its item from the
\* in-flight heap, raised requeueCount by one and left messageCount alone;
\* with timeout = 0 the message is then in the backlog (Depth() + 1 where the
\* channel keeps what it is given) and not deferred, with timeout > 0 it is
\* deferred with release time now + timeout and Depth() is unchanged.
C12_RequeueMovesTheMessage ==
    ~panicked =>
    \A c \in Clients, id \in Msgs, timeout \in Timeouts, bok \in BackendOutcomes :
       (Owns(c, id) /\ (timeout > 0 => CanAllocate(Cur))) =>
          \E r \in {requeueMessage(Cur, c, id, timeout, now, bok, FALSE)} :
             (r.err = "nil" /\ ~r.S.panicked) =>
                /\ r.S.inFlightMessages = [inFlightMessages EXCEPT ![id] = 0]
                /\ SeqRange(r.S.inFlightPQ) = SeqRange(inFlightPQ) \ {inFlightMessages[id]}
                /\ r.S.requeueCount = requeueCount + 1
                /\ r.S.messageCount = messageCount
                /\ IF timeout = 0
                   THEN /\ r.S.deferredMessages = deferredMessages
                        /\ (~ephemeral \/ HasRoom) =>
                              /\ DepthIn(r.S) = Depth + 1
                              /\ id \in Backlog(r.S)
                   ELSE /\ r.S.deferredMessages[id] # 0
                        /\ r.S.item[r.S.deferredMessages[id]].Priority = now + timeout
                        /\ r.S.deferredMessages[id] \in SeqRange(r.S.deferredPQ)
                        /\ DepthIn(r.S) = Depth

\* C13: the consumer limit.  With MaxChannelConsumers non-zero the registry
\* never holds more than MaxChannelConsumers consumers, however AddClient
\* calls for distinct new clientIDs interleave; an AddClient that would
\* exceed the limit returns the error and leaves the registry unchanged; an
\* AddClient for a registered clientID returns ok and changes nothing.
C13_ConsumerLimit ==
    ~panicked =>
    /\ MaxChannelConsumers # 0 => Cardinality(clients) <= MaxChannelConsumers
    /\ \A c \in Clients :
          \E r \in {addClient(Cur, c)} :
             /\ c \in clients /\ exitFlag = 0 => r.err = "nil" /\ r.S = Cur
             /\ (c \notin clients /\ exitFlag = 0 /\ MaxChannelConsumers # 0
                   /\ Cardinality(clients) >= MaxChannelConsumers) =>
                   r.err = "exceeds limit" /\ r.S = Cur

\* the callback has run at most once; a RemoveClient on a channel that is
\* not ephemeral, or is exiting, or for a clientID that is not registered,
\* starts no goroutine; a goroutine at lines 438-440 that starts one is on an
\* ephemeral channel that is not exiting and found its clientID registered
C14_Scheduling ==
    /\ callbackCalls <= 1
    /\ callbackCalls = 1 <=> deleterDone
    /\ \A c \in Clients :
          (~ephemeral \/ exitFlag = 1 \/ c \notin clients) =>
             \E S \in {removeClient(Cur, c)} :
                /\ S.deleterPending = deleterPending
                /\ S.callbackCalls = callbackCalls
    /\ \A t \in Threads :
          (pc[t] = "deleter"
             /\ removeClientSpawn(Cur, local[t].numClients).deleterPending > deleterPending) =>
             ephemeral /\ exitFlag = 0 /\ local[t].ok /\ local[t].numClients = 0

\* a goroutine is started by the last step of a RemoveClient that emptied the
\* registry of an ephemeral channel, and by nothing else; the callback runs
\* in c.deleter.Do only, and only if it has not run before
C14_Step ==
    /\ deleterPending' > deleterPending =>
          /\ ephemeral /\ exitFlag = 0
          /\ \E t \in Threads : /\ pc[t] = "deleter" /\ pc'[t] = "idle"
                                 /\ local[t].numClients = 0
    /\ callbackCalls' # callbackCalls =>
          callbackCalls = 0 /\ callbackCalls' = 1 /\ deleterPending' = deleterPending - 1

\* a RemoveClient has emptied the registry of an ephemeral channel
C14_Emptied ==
    \E t \in Threads : pc[t] = "deleter" /\ local[t].numClients = 0 /\ ephemeral

\* C14: deletion of an ephemeral channel.  When RemoveClient removes the last
\* consumer of an ephemeral channel the delete callback is eventually invoked,
\* and over the channel's life at most once, however RemoveClient calls repeat
\* and interleave and even if consumers are added and the registry empties
\* again; on a channel that is not ephemeral, for a clientID that is not
\* registered, or on an exiting channel RemoveClient never schedules it.
C14_DeleteCallbackOnce ==
    /\ []C14_Scheduling
    /\ [][C14_Step]_vars
    /\ C14_Emptied ~> (callbackCalls = 1)

\* the callback has run, consumers came back, the registry emptied again and
\* a second goroutine is on its way to c.deleter.Do
C14_Witness ==
    /\ ephemeral /\ callbackCalls = 1 /\ deleterDone
    /\ deleterPending = 1
    /\ clients = {}

\* C15: the heap back-index.  After any sequence of Push, Pop, Remove, Update
\* and PeekAndShift every item in the heap has Index equal to its position
\* in the heap's array (indices are updated on every swap), and every item
\* the heap gives up has Index -1.
C15_BackIndex ==
    ~pq.panic =>
    /\ \A k \in 1..Len(pq.q) : pq.it[pq.q[k]].Index = k - 1
    /\ Len(pq.q) > 0 => Pop(pq).it[PopItem(pq)].Index = -1
    /\ \A i \in 0..Len(pq.q) - 1 : Remove(pq, i).it[RemoveItem(pq, i)].Index = -1
    /\ \A t \in Priorities :
          \E r \in {PeekAndShift(pq, t)} : r.item # 0 => r.H.it[r.item].Index = -1

\* the heap property of the comparator Min: no item is before its parent
IsHeap(H) ==
    \A k \in 2..Len(H.q) : ~(H.it[H.q[k]].Priority < H.it[H.q[k \div 2]].Priority)

\* the items that Pop() after Pop() returns, until the queue is empty
RECURSIVE PopAll(_)
PopAll(H) ==
    IF H.panic \/ Len(H.q) = 0 THEN <<>>
    ELSE <<PopItem(H)>> \o PopAll(Pop(H))

\* the items that PeekAndShift(p > t) after PeekAndShift(p > t) returns,
\* until it returns nothing
RECURSIVE ShiftAll(_, _)
ShiftAll(H, t) ==
    LET r == PeekAndShift(H, t) IN
    IF H.panic \/ r.item = 0 THEN <<>>
    ELSE <<r.item>> \o ShiftAll(r.H, t)

\* `out` are all the items of H, each once, in non-decreasing priority
InOrder(H, out) ==
    /\ Len(out) = Len(H.q)
    /\ {out[k] : k \in 1..Len(out)} = {H.q[k] : k \in 1..Len(H.q)}
    /\ \A k \in 1..Len(out) - 1 : H.it[out[k]].Priority <= H.it[out[k + 1]].Priority

\* C16: extraction order.  A new queue is a heap and Push, Pop and
\* PeekAndShift keep it one, so after n items were pushed in any order n
\* Pops, or n PeekAndShifts with a threshold no lower than the highest
\* priority, return all n items in non-decreasing priority; PeekAndShift
\* returns nothing and leaves the queue unchanged when the queue is empty or
\* the head's priority is above the threshold.
C16_ExtractionOrder ==
    ~pq.panic =>
    /\ pq.q = <<>> => IsHeap(pq)
    /\ IsHeap(pq) =>
          /\ InOrder(pq, PopAll(pq))
          /\ InOrder(pq, ShiftAll(pq, MaxPriority))
          /\ \A p \in Priorities :
                Len(pq.q) < MaxHeap => IsHeap(PushNew(pq, p)) /\ ~PushNew(pq, p).panic
          /\ Len(pq.q) > 0 => IsHeap(Pop(pq)) /\ ~Pop(pq).panic
          /\ \A t \in Priorities :
                \E r \in {PeekAndShift(pq, t)} : IsHeap(r.H) /\ ~r.H.panic
    /\ \A t \in Priorities :
          (Len(pq.q) = 0 \/ pq.it[pq.q[1]].Priority > t) =>
             PeekAndShift(pq, t) = [H |-> pq, item |-> 0]

\* three items of three priorities have left the queue one after the other,
\* lowest first, and the queue is empty
C16_Witness ==
    /\ ~pq.panic
    /\ pq.q = <<>>
    /\ pqOut = <<0, 1, 2>>

\* C17: positional removal.  Remove(i) for a valid position 0 <= i < Len
\* removes exactly the item at position i and returns it, sets its Index to
\* -1, lowers Len by one and keeps a heap a heap, so that the remaining items
\* still pop in non-decreasing priority; a Push of one item followed by
\* Remove of its index leaves the queue empty.
C17_RemoveAtPosition ==
    ~pq.panic =>
    /\ \A i \in 0..Len(pq.q) - 1 :
          \E R \in {Remove(pq, i)} :
             /\ ~R.panic
             /\ RemoveItem(pq, i) = pq.q[i + 1]
             /\ Len(R.q) = Len(pq.q) - 1
             /\ {R.q[k] : k \in 1..Len(R.q)} = {pq.q[k] : k \in 1..Len(pq.q)} \ {pq.q[i + 1]}
             /\ R.it[pq.q[i + 1]].Index = -1
             /\ \A a \in HeapItems : R.it[a].Priority = pq.it[a].Priority
             /\ IsHeap(pq) => IsHeap(R) /\ InOrder(R, PopAll(R))
    /\ pq.q = <<>> =>
          \A p \in Priorities :
             \E P \in {PushNew(pq, p)} :
                /\ P.q = <<FreeItem(pq)>>
                /\ Remove(P, P.it[FreeItem(pq)].Index).q = <<>>
                /\ ~Remove(P, P.it[FreeItem(pq)].Index).panic

\* Remove(1) has taken the middle one of three items out of a heap: the two
\* that remain are a heap
C17_Witness ==
    /\ ~pq.panic
    /\ pqOp = <<"Remove", 1>>
    /\ Len(pq.q) = 2
    /\ IsHeap(pq)
    /\ pq.it[pq.q[1]].Priority < pq.it[pq.q[2]].Priority

\* C18: Update.  Update(item) after the Priority of an item in the heap was
\* changed, whatever pushes, pops and removals came before, restores the heap
\* property for the whole heap; Update of an item whose Index is -1 changes
\* nothing.
C18_UpdateRestoresHeap ==
    ~pq.panic =>
    \A a \in HeapItems, p \in Priorities :
       \E U \in {UpdateTo(pq, a, p)} :
          /\ (IsHeap(pq) /\ a \in {pq.q[k] : k \in 1..Len(pq.q)}) =>
                ~U.panic /\ IsHeap(U)
          /\ pq.it[a].Index = -1 => ~U.panic /\ U.q = pq.q

\* the locks goroutine t holds
Held(t) == {m \in LockNames : lk[m].w = t \/ lk[m].r[t] > 0}

\* the lock hierarchy
Rank(m) == CASE m = "exitMutex" -> 1 [] m = "RWMutex" -> 2 [] OTHER -> 3

\* C19: lock discipline.  No goroutine ever holds inFlightMutex and
\* deferredMutex together; a goroutine acquires a lock only while every lock
\* it holds is higher in the order exit lock, channel lock, tracker lock;
\* it releases only what it holds; and so in no reachable state are the
\* goroutines that are inside a call all waiting for a lock.
C19_LockDiscipline ==
    /\ \A t \in Callers :
          /\ ~({"inFlightMutex", "deferredMutex"} \subseteq Held(t))
          /\ lk["exitMutex"].r[t] <= 1 /\ lk["RWMutex"].r[t] <= 1
          /\ script[t] # <<>> =>
                /\ Head(script[t])[1] \in {"Lock", "RLock"} =>
                      \A h \in Held(t) : Rank(h) < Rank(Head(script[t])[2])
                /\ Head(script[t])[1] = "Unlock" => lk[Head(script[t])[2]].w = t
                /\ Head(script[t])[1] = "RUnlock" => lk[Head(script[t])[2]].r[t] > 0
          /\ script[t] = <<>> => Held(t) = {}
    /\ (\E t \in Callers : script[t] # <<>>) =>
          \E t \in Callers : script[t] # <<>> /\ ~Blocked(t)

\* One goroutine is in Close's flush, holding the exit lock for writing and
\* inFlightMutex; the other waits for the exit lock in an AddClient.
C19_Witness ==
    \E t, u \in Callers :
       /\ Held(t) = {"exitMutex", "inFlightMutex"}
       /\ lk["exitMutex"].w = t
       /\ Blocked(u)
       /\ Head(script[u]) = RLock("exitMutex")
       /\ Len(script[u]) = 6

IsPrefix(a, b) == Len(a) <= Len(b) /\ SubSeq(b, 1, Len(a)) = a

\* Without memory channel a put that does not fail appends the message to
\* the backend and touches nothing else, whether it is made by PutMessage,
\* by an immediate requeue or by a sweep.
C20_Routing ==
    (~panicked /\ ~HasMemChan) =>
    /\ memoryMsgChan = <<>>
    /\ \A m \in Msgs, rcv \in ReceiverChoices :
          put(Cur, m, TRUE, rcv) = [S |-> [Cur EXCEPT !.backend = Append(@, m)], err |-> "nil"]
    /\ \A rcv \in ReceiverChoices :
          (exitFlag = 0 /\ sequence < MaxMsgs) =>
             \E r \in {putMessage(Cur, NewGUID, TRUE, rcv)} :
                r.err = "nil" /\ r.S.backend = Append(backend, NewGUID) /\ r.S.held = held
    /\ \A c \in Clients, id \in Msgs, rcv \in ReceiverChoices :
          \E r \in {requeueMessage(Cur, c, id, 0, now, TRUE, rcv)} :
             (r.err = "nil" /\ ~r.S.panicked) =>
                r.S.backend = Append(backend, id) /\ r.S.held = held
    /\ \A t \in Times, rcv \in ReceiverChoices :
          /\ \E r \in {processInFlightQueueOp(Cur, t, TRUE, rcv)} :
                ~r.S.panicked =>
                   /\ r.S.memoryMsgChan = <<>> /\ r.S.held = held
                   /\ IsPrefix(backend, r.S.backend)
                   /\ Len(r.S.backend) = Len(backend) + r.S.timeoutCount - timeoutCount
          /\ \E r \in {processDeferredQueueOp(Cur, t, TRUE, rcv)} :
                ~r.S.panicked =>
                   /\ r.S.memoryMsgChan = <<>> /\ r.S.held = held
                   /\ IsPrefix(backend, r.S.backend)
                   /\ Len(r.S.backend) = Len(backend) + Cardinality(DeferredIds(Cur))
                                             - Cardinality(DeferredIds(r.S))

\* Messages join the memory channel and the backend at the tail and leave
\* them at the head, one at a time, for the consumer.
C20_Step ==
    /\ memoryMsgChan' # memoryMsgChan =>
          \/ IsPrefix(memoryMsgChan, memoryMsgChan') /\ held' = held
          \/ /\ memoryMsgChan' = Tail(memoryMsgChan)
             /\ held' = held \cup {Head(memoryMsgChan)}
             /\ backend' = backend
    /\ backend' # backend =>
          \/ IsPrefix(backend, backend') /\ held' = held
          \/ /\ backend' = Tail(backend)
             /\ held' = held \cup {Head(backend)}
             /\ memoryMsgChan' = memoryMsgChan
    /\ \A m \in held' \ held :
          \/ memoryMsgChan # <<>> /\ m = Head(memoryMsgChan) /\ memoryMsgChan' = Tail(memoryMsgChan)
          \/ backend # <<>> /\ m = Head(backend) /\ backend' = Tail(backend)
          \/ HasMemChan /\ memQueueSize = 0

\* C20: ordering.  Messages deposited in the backlog buffer are taken from it
\* in the order they were deposited; when MemQueueSize is 0 on a channel that
\* is not ephemeral there is no buffer, every put (PutMessage, immediate
\* requeue, sweep release) is appended to the backend, and messages leave in
\* exactly the order they were appended.
C20_Ordering == []C20_Routing /\ [][C20_Step]_vars

\* no memory channel: message 1 left the backend first, was delivered and
\* requeued, and now stands in the backend behind message 2
C20_Witness ==
    /\ ~panicked /\ ~HasMemChan
    /\ last.op = "RequeueMessage" /\ last.ret = "nil"
    /\ backend = <<2, 1>>

\* the memory channel holds two messages, message 1 requeued behind message 2
C20_WitnessBuffer ==
    /\ ~panicked /\ HasMemChan
    /\ last.op = "RequeueMessage" /\ last.ret = "nil"
    /\ memoryMsgChan = <<2, 1>>

\* C21: one entry per id.  StartInFlightTimeout for an id that is in the
\* in-flight tracker fails with 'ID already in flight', adds no heap item and
\* leaves the entry's owner, deliveryTS and deadline as they were;
\* StartDeferredTimeout for an id that is in the deferred tracker fails with
\* 'ID already deferred', adds no heap item and leaves the entry's deadline
\* as it was.
C21_OneEntryPerId ==
    (~panicked /\ CanAllocate(Cur)) =>
    \A m \in Msgs, timeout \in Timeouts :
       /\ inFlightMessages[m] # 0 =>
             \A c \in Clients :
                \E r \in {startInFlightTimeout(Cur, m, c, timeout, now)} :
                   /\ r.err = "ID already in flight"
                   /\ r.S.inFlightMessages = inFlightMessages
                   /\ r.S.inFlightPQ = inFlightPQ
                   /\ r.S.item[inFlightMessages[m]] = item[inFlightMessages[m]]
                   /\ r.S.msgClientID[m] = msgClientID[m]
                   /\ r.S.msgDeliveryTS[m] = msgDeliveryTS[m]
       /\ deferredMessages[m] # 0 =>
             \E r \in {startDeferredTimeout(Cur, m, timeout, now)} :
                /\ r.err = "ID already deferred"
                /\ r.S.deferredMessages = deferredMessages
                /\ r.S.deferredPQ = deferredPQ
                /\ r.S.item[deferredMessages[m]] = item[deferredMessages[m]]

\* C22: every delivery has one terminal outcome at most.  For each message,
\* the FinishMessage calls that returned nil, the RequeueMessage calls that
\* returned nil and the releases by processInFlightQueue together number no
\* more than its StartInFlightTimeout calls, under every interleaving of the
\* consumers' goroutines and the sweep: a finished message is not put back by
\* the sweep, and no delivery puts its message into the backlog twice.
C22_OneTerminalOutcome ==
    \A m \in Msgs : hist[m].fin + hist[m].req + hist[m].tmo <= hist[m].del

\* C23: the map and the heap of a tracker hold the same messages.  Whenever
\* no goroutine is inside a tracker method or a sweep, the messages of the
\* in-flight map are the messages of the in-flight heap, and the messages of
\* the deferred map are those of the deferred heap, under every interleaving
\* of StartInFlightTimeout, TouchMessage, FinishMessage, RequeueMessage,
\* StartDeferredTimeout and the two sweeps.
C23_MapHeapConsistent ==
    (~panicked /\ \A t \in Callers : track[t].pc = "idle") =>
       /\ InFlightIds(Cur) = {item[inFlightPQ[i]].Val : i \in DOMAIN inFlightPQ}
       /\ DeferredIds(Cur) = {item[deferredPQ[i]].Val : i \in DOMAIN deferredPQ}

\* C24: no message is lost across shutdown.  Once Close() has returned, every
\* racing PutMessage, StartInFlightTimeout, FinishMessage, RequeueMessage,
\* PutMessageDeferred and sweep has returned and no consumer holds a message
\* it has not yet handed to StartInFlightTimeout, every message that was
\* accepted and not finished is in the backend, under every interleaving; a
\* RequeueMessage with timeout 0 that returned 'exiting' has not left its
\* message outside both the in-flight tracker and the backend.
C24_NothingLostAcrossClose ==
    (/\ exitFlag = 1
     /\ ~panicked
     /\ held = {}
     /\ \A t \in Callers : track[t].pc = "idle") =>
       \A m \in Msgs :
          (hist[m].acc /\ hist[m].fin = 0) => \E i \in DOMAIN backend : backend[i] = m

====
